---------------------------- MODULE Spec2Model ----------------------------
(***************************************************************************)
(* Native C++ core of CANphon: the object tracker state machine            *)
(* (object_tracker.cpp), the constant-velocity Kalman filter it drives     *)
(* (kalman_filter.cpp), the target discriminator it re-initialises         *)
(* (target_discriminator.cpp), the PID and guidance controller and the     *)
(* sensor fusion (guidance_controller.cpp), the signal filters             *)
(* (filters.cpp), the telemetry frame (telemetry.cpp) and the servo        *)
(* position frame (servo_protocol.cpp, Core/Src/servo_driver.c).           *)
(*                                                                         *)
(* Every C function is one action; the file-scope statics `tracker`,       *)
(* `kalman`, `historyBuffer`, `historyCount`, `lastScores`, `guidance`,    *)
(* `fusion`, `telem`, ... are the variables of the same names.  `op`,      *)
(* `arg`, `ret`, `out` record the last API call, its arguments, its return *)
(* value and what it wrote through its output pointers.                    *)
(***************************************************************************)
EXTENDS Integers, Sequences, FiniteSets, TLC

(***************************************************************************)
(* Floating point.  The C `double` and `float` values are modelled as      *)
(* binary floating-point numbers m * 2^e with a MantBits-bit significand,  *)
(* rounded to nearest (ties to even) after every operation, as IEEE-754    *)
(* does with 53 and 24 bits (the operators round correctly for             *)
(* MantBits <= 14).  The exponent is unbounded (no overflow to infinity,   *)
(* no subnormals, no NaN).  A value is the record [m, e] with              *)
(* m = 0 /\ e = 0, or 2^(MantBits-1) <= |m| < 2^MantBits, so that equal    *)
(* numbers are equal records.                                              *)
(***************************************************************************)
MantBits == 13

RECURSIVE Pow2(_)
Pow2(n) == IF n <= 0 THEN 1 ELSE 2 * Pow2(n - 1)

Abs(n) == IF n < 0 THEN -n ELSE n

Sgn(n) == IF n < 0 THEN -1 ELSE IF n > 0 THEN 1 ELSE 0

RECURSIVE BitLen(_)
BitLen(n) == IF n = 0 THEN 0 ELSE 1 + BitLen(n \div 2)

FZero == [m |-> 0, e |-> 0]

\* 1.0
F1 == [m |-> Pow2(MantBits - 1), e |-> 1 - MantBits]

\* 0.5
Half == [m |-> Pow2(MantBits - 1), e |-> -MantBits]

\* the rounded significand q (of sign sm) with exponent e, renormalised when
\* the rounding carried into the next bit
Carry(sm, e, q) ==
  IF q = Pow2(MantBits)
  THEN [m |-> Sgn(sm) * Pow2(MantBits - 1), e |-> e + 1]
  ELSE [m |-> Sgn(sm) * q, e |-> e]

\* round to nearest, ties to even: q the kept bits, rem the dropped bits
RoundTo(sm, e, q, rem, half) ==
  Carry(sm, e, IF rem > half \/ (rem = half /\ q % 2 = 1) THEN q + 1 ELSE q)

\* sm has n bits
NormBits(sm, ex, n) ==
  IF n <= MantBits
  THEN [m |-> sm * Pow2(MantBits - n), e |-> ex - (MantBits - n)]
  ELSE RoundTo(sm, ex + (n - MantBits), Abs(sm) \div Pow2(n - MantBits),
               Abs(sm) % Pow2(n - MantBits), Pow2(n - MantBits - 1))

\* Round the exact value sm * 2^ex (sm any integer) to MantBits bits.
Norm(sm, ex) == IF sm = 0 THEN FZero ELSE NormBits(sm, ex, BitLen(Abs(sm)))

\* (double)n, (float)n for an int n
FromInt(n) == Norm(n, 0)

FNeg(a) == [m |-> -(a.m), e |-> a.e]

\* How far the larger operand of a sum is shifted: beyond, the smaller one
\* cannot change the rounded result.
MaxShift == 30 - MantBits

\* hi + lo for hi.e >= lo.e
AddOrdered(hi, lo) ==
  IF hi.e - lo.e > MaxShift THEN hi
  ELSE Norm(hi.m * Pow2(hi.e - lo.e) + lo.m, lo.e)

FAdd(a, b) ==
  IF a.m = 0 THEN b
  ELSE IF b.m = 0 THEN a
  ELSE IF a.e >= b.e THEN AddOrdered(a, b)
  ELSE AddOrdered(b, a)

FSub(a, b) == FAdd(a, FNeg(b))

FMul(a, b) == Norm(a.m * b.m, a.e + b.e)

DivShift == 29 - MantBits

\* the quotient of num = |a.m| * 2^DivShift by |b.m|; the remainder is kept
\* as a sticky bit for the rounding
DivNum(a, b, num) ==
  Norm(Sgn(a.m) * Sgn(b.m)
         * (2 * (num \div Abs(b.m)) + (IF num % Abs(b.m) = 0 THEN 0 ELSE 1)),
       a.e - b.e - DivShift - 1)

\* a / b for b # 0
FDiv(a, b) == IF a.m = 0 THEN FZero ELSE DivNum(a, b, Abs(a.m) * Pow2(DivShift))

FLt(a, b) == FSub(a, b).m < 0

FLe(a, b) == FSub(a, b).m <= 0

FAbs(a) == [m |-> Abs(a.m), e |-> a.e]

\* fmax, fmin
FMax(a, b) == IF FLt(a, b) THEN b ELSE a

FMin(a, b) == IF FLt(b, a) THEN b ELSE a

RECURSIVE ISqrtFrom(_, _)
ISqrtFrom(n, r) == IF r * r <= n THEN r ELSE ISqrtFrom(n, (r + n \div r) \div 2)

\* floor(sqrt(n)) for n >= 0 (Newton's iteration from above)
ISqrt(n) == IF n < 2 THEN n ELSE ISqrtFrom(n, Pow2((BitLen(n) + 1) \div 2))

\* r = floor(sqrt(n)): r carries a round bit, inexactness is the sticky bit
SqrtRoot(n, r, e) == Norm(2 * r + (IF r * r = n THEN 0 ELSE 1), e)

\* the radicand a.m * 2^k has 29 or 30 bits and a.e - k is even
SqrtShift(a, k) == SqrtRoot(a.m * Pow2(k), ISqrt(a.m * Pow2(k)), ((a.e - k) \div 2) - 1)

\* sqrt(a), sqrtf(a) for a >= 0, correctly rounded
FSqrt(a) ==
  IF a.m <= 0 THEN FZero
  ELSE SqrtShift(a, IF (a.e - (29 - MantBits)) % 2 = 0
                    THEN 29 - MantBits ELSE 30 - MantBits)

\* (int)a: truncation toward zero
Trunc(a) ==
  IF a.e >= 0 THEN a.m * Pow2(a.e)
  ELSE IF -(a.e) >= MantBits THEN 0
  ELSE Sgn(a.m) * (Abs(a.m) \div Pow2(-(a.e)))

\* the constant p/q as written in the source (0.3f, 0.8f, ...)
FRat(p, q) == FDiv(FromInt(p), FromInt(q))

(***************************************************************************)
(* kalman_filter.cpp                                                       *)
(***************************************************************************)
Idx4 == 0 .. 3

\* static const double F[4][4]: constant-velocity transition matrix
F == [i \in Idx4 |-> [j \in Idx4 |->
        IF i = j \/ j = i + 2 THEN F1 ELSE FZero]]

ZeroVec4 == [i \in Idx4 |-> FZero]

ZeroMat4 == [i \in Idx4 |-> [j \in Idx4 |-> FZero]]

\* out[i] = m[i][0]*v[0] + m[i][1]*v[1] + m[i][2]*v[2] + m[i][3]*v[3]
matVec4(m, v) ==
  [i \in Idx4 |->
     FAdd(FAdd(FAdd(FMul(m[i][0], v[0]), FMul(m[i][1], v[1])),
               FMul(m[i][2], v[2])),
          FMul(m[i][3], v[3]))]

\* out[i][j] = 0; for k: out[i][j] += a[i][k] * b[k][j]
matMul4x4(a, b) ==
  [i \in Idx4 |-> [j \in Idx4 |->
     FAdd(FAdd(FAdd(FAdd(FZero, FMul(a[i][0], b[0][j])), FMul(a[i][1], b[1][j])),
               FMul(a[i][2], b[2][j])),
          FMul(a[i][3], b[3][j]))]]

\* FPFt[i][j] = 0; for k: FPFt[i][j] += FP[i][k] * F[j][k]
mulFt(FP) ==
  [i \in Idx4 |-> [j \in Idx4 |->
     FAdd(FAdd(FAdd(FAdd(FZero, FMul(FP[i][0], F[j][0])), FMul(FP[i][1], F[j][1])),
               FMul(FP[i][2], F[j][2])),
          FMul(FP[i][3], F[j][3]))]]

\* for i: FPFt[i][i] += kalman.processNoise
addProcessNoise(FPFt, processNoise) ==
  [i \in Idx4 |-> [j \in Idx4 |->
     IF i = j THEN FAdd(FPFt[i][j], processNoise) ELSE FPFt[i][j]]]

\* static KalmanState kalman = {0}
KalmanZero ==
  [state |-> ZeroVec4, P |-> ZeroMat4, processNoise |-> FZero,
   measurementNoise |-> FZero, initialized |-> FALSE]

\* kalmanInit leaving a unit velocity along x instead of zero
KalmanInitMoving(x, y, processNoise, measurementNoise) ==
  [state |-> [i \in Idx4 |-> IF i = 0 THEN x ELSE IF i = 1 THEN y
                             ELSE IF i = 2 THEN F1 ELSE FZero],
   P |-> [i \in Idx4 |-> [j \in Idx4 |->
            IF i # j THEN FZero
            ELSE IF i < 2 THEN FromInt(100) ELSE FromInt(10)]],
   processNoise |-> processNoise,
   measurementNoise |-> measurementNoise,
   initialized |-> TRUE]

\* the filter that kalmanInit(x, y, processNoise, measurementNoise) leaves
KalmanInit(x, y, processNoise, measurementNoise) ==
  [state |-> [i \in Idx4 |-> IF i = 0 THEN x ELSE IF i = 1 THEN y ELSE FZero],
   P |-> [i \in Idx4 |-> [j \in Idx4 |->
            IF i # j THEN FZero
            ELSE IF i < 2 THEN FromInt(100) ELSE FromInt(10)]],
   processNoise |-> processNoise,
   measurementNoise |-> measurementNoise,
   initialized |-> TRUE]

\* the filter after kalmanPredict
KalmanPredict(k) ==
  IF ~k.initialized THEN k
  ELSE [k EXCEPT !.state = matVec4(F, k.state),
                 !.P = addProcessNoise(mulFt(matMul4x4(F, k.P)), k.processNoise)]

\* what kalmanPredict stores in *outX, *outY: k the filter before the call,
\* k1 the filter after it
KalmanPredictOut(k, k1) ==
  IF ~k.initialized THEN <<FZero, FZero>> ELSE <<k1.state[0], k1.state[1]>>

\* 1e-10
Eps10 == FMul(FRat(1, 100000), FRat(1, 100000))

\* "Update velocity estimate (EMA)": old the state before the state update,
\* st the state after it
velocityEMA(old, st) ==
  [st EXCEPT ![2] = FAdd(FMul(st[2], Half), FMul(FSub(st[0], old[0]), Half)),
             ![3] = FAdd(FMul(st[3], Half), FMul(FSub(st[1], old[1]), Half))]

\* IKH[i][j] = (i == j ? 1.0 : 0.0); if (j < 2) IKH[i][j] -= K[i][j]
IKH(K) ==
  [i \in Idx4 |-> [j \in Idx4 |->
     IF j < 2 THEN FSub(IF i = j THEN F1 ELSE FZero, K[i][j + 1])
     ELSE IF i = j THEN F1 ELSE FZero]]

\* state update, velocity EMA and covariance update with the gain K
UpdateWithGain(k, in0, in1, K) ==
  [k EXCEPT
     !.state = velocityEMA(k.state,
                 [i \in Idx4 |->
                    FAdd(k.state[i], FAdd(FMul(K[i][1], in0), FMul(K[i][2], in1)))]),
     !.P = matMul4x4(IKH(K), k.P)]

\* the Kalman gain doubled
UpdateWithDoubleGain(k, in0, in1, invS00, invS01, invS10, invS11) ==
  UpdateWithGain(k, in0, in1,
    [i \in Idx4 |->
       <<FMul(FromInt(2), FAdd(FMul(k.P[i][0], invS00), FMul(k.P[i][1], invS10))),
         FMul(FromInt(2), FAdd(FMul(k.P[i][0], invS01), FMul(k.P[i][1], invS11)))>>])

\* Kalman gain K = P * H^T * S^-1 (K[i] is the pair <<K[i][0], K[i][1]>>)
UpdateWithInvS(k, in0, in1, invS00, invS01, invS10, invS11) ==
  UpdateWithGain(k, in0, in1,
    [i \in Idx4 |->
       <<FAdd(FMul(k.P[i][0], invS00), FMul(k.P[i][1], invS10)),
         FAdd(FMul(k.P[i][0], invS01), FMul(k.P[i][1], invS11))>>])

\* a singular S taking the measurement as the position instead of returning
UpdateWithDetSnapping(k, in0, in1, S00, S01, S10, S11, det) ==
  IF FLt(FAbs(det), Eps10)
  THEN [k EXCEPT !.state = [@ EXCEPT ![0] = FAdd(@, in0), ![1] = FAdd(@, in1)]]
  ELSE UpdateWithInvS(k, in0, in1, FDiv(S11, det), FDiv(FNeg(S01), det),
                      FDiv(FNeg(S10), det), FDiv(S00, det))

\* if (fabs(det) < 1e-10) return; else invert S
UpdateWithDet(k, in0, in1, S00, S01, S10, S11, det) ==
  IF FLt(FAbs(det), Eps10) THEN k
  ELSE UpdateWithInvS(k, in0, in1, FDiv(S11, det), FDiv(FNeg(S01), det),
                      FDiv(FNeg(S10), det), FDiv(S00, det))

\* det = S[0][0] * S[1][1] - S[0][1] * S[1][0]
UpdateWithS(k, in0, in1, S00, S01, S10, S11) ==
  UpdateWithDet(k, in0, in1, S00, S01, S10, S11,
                FSub(FMul(S00, S11), FMul(S01, S10)))

\* kalmanUpdate ignoring a measurement while uninitialised
KalmanUpdateWithoutAutoInit(k, measuredX, measuredY) ==
  IF ~k.initialized THEN k
  ELSE UpdateWithS(k, FSub(measuredX, k.state[0]), FSub(measuredY, k.state[1]),
                   FAdd(k.P[0][0], k.measurementNoise), k.P[0][1],
                   k.P[1][0], FAdd(k.P[1][1], k.measurementNoise))

\* the filter after kalmanUpdate(measuredX, measuredY)
KalmanUpdate(k, measuredX, measuredY) ==
  IF ~k.initialized
  THEN KalmanInit(measuredX, measuredY, FromInt(300), F1)
  ELSE UpdateWithS(k, FSub(measuredX, k.state[0]), FSub(measuredY, k.state[1]),
                   FAdd(k.P[0][0], k.measurementNoise), k.P[0][1],
                   k.P[1][0], FAdd(k.P[1][1], k.measurementNoise))

\* the filter after kalmanReset
KalmanReset(k) ==
  [k EXCEPT !.initialized = FALSE, !.state = ZeroVec4, !.P = ZeroMat4]

\* kalmanGetUncertainty
kalmanGetUncertainty(k) ==
  FSqrt(FAdd(FMul(k.P[0][0], k.P[0][0]), FMul(k.P[1][1], k.P[1][1])))

(***************************************************************************)
(* object_tracker.cpp: state                                               *)
(***************************************************************************)
TRACK_MODE_OFF == 0
TRACK_MODE_SEARCH == 1
TRACK_MODE_TRACK == 2
TRACK_MODE_LOST == 3

MAX_TRACKED_OBJECTS == 100

\* int / int of C: truncation toward zero
CDiv(a, b) == Sgn(a) * Sgn(b) * (Abs(a) \div Abs(b))

IMax(a, b) == IF a < b THEN b ELSE a

\* static TrackerState tracker = {...}; the object array is kept as the
\* sequence of its first objectCount entries (the entries beyond are never
\* read: a new entry is memset before use).
TrackerStatic ==
  [mode |-> TRACK_MODE_OFF, enablePrediction |-> 0,
   imageWidth |-> 1280, imageHeight |-> 720,
   lastX |-> -1, lastY |-> -1, lastW |-> 0, lastH |-> 0,
   predictedX |-> 0, predictedY |-> 0,
   confidence |-> FZero,
   objects |-> <<>>, objectCount |-> 0]

\* the tracker after trackerInit: memset 0, then the defaults
TrackerInit == TrackerStatic

\* the tracker after trackerStartTracking(x, y, w, h)
TrackerStartTracking(t, x, y, w, h) ==
  [t EXCEPT !.lastX = x, !.lastY = y, !.lastW = w, !.lastH = h,
            !.mode = TRACK_MODE_TRACK, !.confidence = F1]

\* the tracker after trackerReset
TrackerReset(t) ==
  [t EXCEPT !.mode = TRACK_MODE_OFF,
            !.lastX = -1, !.lastY = -1, !.lastW = 0, !.lastH = 0,
            !.objectCount = 0, !.objects = <<>>,
            !.confidence = FZero]

\* trackerStop clearing the stored confidence as well
TrackerStopClearing(t) == [t EXCEPT !.mode = TRACK_MODE_OFF, !.confidence = FZero]

\* the tracker after trackerStop
TrackerStop(t) == [t EXCEPT !.mode = TRACK_MODE_OFF]

\* sqrtf(dx * dx + dy * dy), sqrt(a * a + b * b)
sqrtSumSq(dx, dy) == FSqrt(FAdd(FMul(dx, dx), FMul(dy, dy)))

\* static inline float distance(int x1, int y1, int x2, int y2)
distance(x1, y1, x2, y2) == sqrtSumSq(FromInt(x2 - x1), FromInt(y2 - y1))

\* the comparison taking a detection that is as near as the best so far
CloserOrTied(i, d, best) == IF FLe(d, best.dist) THEN [idx |-> i, dist |-> d] ELSE best

\* if (d < bestDist) { bestDist = d; bestIdx = i; }   best is [idx, dist]
Closer(i, d, best) == IF FLt(d, best.dist) THEN [idx |-> i, dist |-> d] ELSE best

\* The loop `for (i...) { d = distance(...); if (d < bestDist) {...} }` of
\* trackerUpdate from index i on.  rects[i + 1] is the C
\* detectedRects[i*4 .. i*4+3].
RECURSIVE ClosestLoop(_, _, _, _, _, _)
ClosestLoop(rects, i, count, px, py, best) ==
  IF i >= count THEN best
  ELSE ClosestLoop(rects, i + 1, count, px, py,
                   Closer(i, distance(rects[i + 1][1], rects[i + 1][2], px, py), best))

\* float searchRadius = fmax(fmax(imageWidth / 2, imageHeight / 2), 500.0f)
SearchRadius(t) ==
  FMax(FromInt(IMax(CDiv(t.imageWidth, 2), CDiv(t.imageHeight, 2))), FromInt(500))

\* 1e10f
Big10 == FMul(FromInt(100000), FromInt(100000))

\* no fallback search: a detection beyond the radius is rejected
ClosestInRangeOnly(t, rects, count, inRange) == inRange

\* "If no match in range, pick closest anyway": inRange is the outcome of the
\* first loop
ClosestAnyway(t, rects, count, inRange) ==
  IF inRange.idx < 0 /\ count > 0
  THEN ClosestLoop(rects, 0, count, t.predictedX, t.predictedY,
                   [idx |-> -1, dist |-> Big10])
  ELSE inRange

\* step 3 of trackerUpdate: the in-radius search, then the fallback search
BestMatch(t, rects, count) ==
  ClosestAnyway(t, rects, count,
                ClosestLoop(rects, 0, count, t.predictedX, t.predictedY,
                            [idx |-> -1, dist |-> SearchRadius(t)]))

\* nothing written through outX..outConfidence
NoOut ==
  [written |-> FALSE, x |-> 0, y |-> 0, w |-> 0, h |-> 0, conf |-> FZero,
   fx |-> FZero, fy |-> FZero, scores |-> <<>>, score |-> <<>>, angles |-> <<>>,
   vec |-> <<>>]

\* *outX = x; *outY = y; *outW = w; *outH = h; *outConfidence = conf
Written(x, y, w, h, conf) ==
  [NoOut EXCEPT !.written = TRUE, !.x = x, !.y = y, !.w = w, !.h = h, !.conf = conf]

Result(t, k, r, o) == [t |-> t, k |-> k, ret |-> r, out |-> o]

\* the prediction reported but not adopted as the last-known position
UsePredictionKeepingLast(t, k, conf) ==
  Result(t, k, 1, Written(t.predictedX, t.predictedY, t.lastW, t.lastH, conf))

\* *outX = predictedX; ...; tracker.lastX = predictedX; ...; return 1
UsePrediction(t, k, conf) ==
  Result([t EXCEPT !.lastX = t.predictedX, !.lastY = t.predictedY], k, 1,
         Written(t.predictedX, t.predictedY, t.lastW, t.lastH, conf))

\* step 2 without the test of enablePrediction
UpdateEmptyIgnoringFlag(t, k) ==
  IF FLt(kalmanGetUncertainty(k), FromInt(200))
  THEN Result([t EXCEPT !.lastX = t.predictedX, !.lastY = t.predictedY], k, 1,
              Written(t.predictedX, t.predictedY, t.lastW, t.lastH, Half))
  ELSE Result(t, k, 0, NoOut)

\* step 2 leaving Track mode when it reports not-found
UpdateEmptyToLost(t, k) ==
  IF t.enablePrediction # 0 /\ FLt(kalmanGetUncertainty(k), FromInt(200))
  THEN UsePrediction(t, k, Half)
  ELSE Result([t EXCEPT !.mode = TRACK_MODE_LOST], k, 0, NoOut)

\* step 2 of trackerUpdate (detectedCount == 0); t, k are after step 1
UpdateEmpty(t, k) ==
  IF t.enablePrediction = 0 THEN Result(t, k, 0, NoOut)
  ELSE IF FLt(kalmanGetUncertainty(k), FromInt(200))
       THEN UsePrediction(t, k, Half)
       ELSE Result(t, k, 0, NoOut)

\* the confidence without its lower limit
MatchConfidenceNoFloor(bestDist, searchRadius) ==
  FMin(F1, FSub(F1, FDiv(bestDist, searchRadius)))

\* fmax(0.3f, fmin(1.0f, 1.0f - bestDist / searchRadius))
MatchConfidence(bestDist, searchRadius) ==
  FMax(FRat(3, 10), FMin(F1, FSub(F1, FDiv(bestDist, searchRadius))))

\* step 4 always returning the raw position
StoreMatchRaw(t, k2, r, conf) ==
  Result([t EXCEPT !.lastX = r[1], !.lastY = r[2], !.lastW = r[3], !.lastH = r[4],
                   !.confidence = conf],
         k2, 1, Written(r[1], r[2], r[3], r[4], conf))

\* step 4 after kalmanUpdate: r the matched rect, k2 the updated filter
StoreMatch(t, k2, r, conf) ==
  Result([t EXCEPT !.lastX = r[1], !.lastY = r[2], !.lastW = r[3], !.lastH = r[4],
                   !.confidence = conf],
         k2, 1,
         IF t.enablePrediction = 0
         THEN Written(r[1], r[2], r[3], r[4], conf)
         ELSE Written(Trunc(k2.state[0]), Trunc(k2.state[1]), r[3], r[4], conf))

\* step 4 of trackerUpdate (bestIdx >= 0)
UpdateMatched(t, k, rects, best) ==
  StoreMatch(t,
             KalmanUpdate(k, FromInt(rects[best.idx + 1][1]),
                          FromInt(rects[best.idx + 1][2])),
             rects[best.idx + 1],
             MatchConfidence(best.dist, SearchRadius(t)))

\* step 5 entering Search instead of Lost
UpdateLostToSearch(t, k) ==
  IF t.enablePrediction = 0
  THEN Result([t EXCEPT !.mode = TRACK_MODE_SEARCH], k, 0, NoOut)
  ELSE Result([t EXCEPT !.lastX = t.predictedX, !.lastY = t.predictedY], k, 1,
              Written(t.predictedX, t.predictedY, t.lastW, t.lastH, FRat(3, 10)))

\* step 5 of trackerUpdate (no best match)
UpdateLost(t, k) ==
  IF t.enablePrediction = 0
  THEN Result([t EXCEPT !.mode = TRACK_MODE_LOST], k, 0, NoOut)
  ELSE IF t.lastX >= 0
       THEN UsePrediction(t, k, FRat(3, 10))
       ELSE Result([t EXCEPT !.mode = TRACK_MODE_LOST], KalmanReset(k), 0, NoOut)

\* steps 4 and 5: best is the outcome of step 3
UpdateWithBest(t, k, rects, best) ==
  IF best.idx >= 0 THEN UpdateMatched(t, k, rects, best) ELSE UpdateLost(t, k)

\* steps 2 to 5: t, k are after step 1
UpdateAfterPredict(t, k, rects, count) ==
  IF count = 0 THEN UpdateEmpty(t, k)
  ELSE UpdateWithBest(t, k, rects, BestMatch(t, rects, count))

\* tracker.predictedX = (int)predX; tracker.predictedY = (int)predY
StorePrediction(t, pred) ==
  [t EXCEPT !.predictedX = Trunc(pred[1]), !.predictedY = Trunc(pred[2])]

\* step 1 of trackerUpdate: k1 is the filter after kalmanPredict
UpdatePredicted(t, k, k1, rects, count) ==
  UpdateAfterPredict(StorePrediction(t, KalmanPredictOut(k, k1)), k1, rects, count)

\* trackerUpdate without the test of the last-known point
TrackerUpdateUnguarded(t, k, rects, count) ==
  IF t.mode # TRACK_MODE_TRACK THEN Result(t, k, 0, NoOut)
  ELSE UpdatePredicted(t, k, KalmanPredict(k), rects, count)

\* trackerUpdate(detectedRects, detectedCount, outX, outY, outW, outH,
\* outConfidence) on tracker t and filter k: the new tracker, the new filter,
\* the return value and the outputs
TrackerUpdate(t, k, rects, count) ==
  IF t.mode # TRACK_MODE_TRACK THEN Result(t, k, 0, NoOut)
  ELSE IF t.lastX < 0 \/ t.lastY < 0 THEN Result(t, k, 0, NoOut)
  ELSE UpdatePredicted(t, k, KalmanPredict(k), rects, count)

\* trackerGetConfidence
TrackerGetConfidence(t, k) ==
  IF t.mode = TRACK_MODE_TRACK /\ t.lastX >= 0
  THEN FDiv(FSub(FromInt(500), kalmanGetUncertainty(k)), FromInt(500))
  ELSE FZero

\* trackerIsTracking
TrackerIsTracking(t) == IF t.mode = TRACK_MODE_TRACK THEN 1 ELSE 0

(***************************************************************************)
(* object_tracker.cpp: trackerProcessDetections.  A TrackedObject is       *)
(* [id, current, history, historyCount]; history is the sequence of its    *)
(* first historyCount ObjectStates (a removed object keeps no readable     *)
(* history).                                                               *)
(***************************************************************************)
MAX_OBJECT_HISTORY == 100

ObjectState(x, y, w, h, lostCount, status) ==
  [x |-> x, y |-> y, w |-> w, h |-> h, lostCount |-> lostCount, status |-> status]

\* the inner loop over j: index (1-based) of the first tracked object whose
\* last history entry lies within the search range of (x, y); 0 when none
RECURSIVE MatchObject(_, _, _, _, _)
MatchObject(t, j, x, y, n) ==
  IF j > n THEN 0
  ELSE LET obj == t.objects[j]
           searchRangeX == CDiv(t.imageWidth, 16)
           searchRangeY == CDiv(t.imageHeight, 16)
       IN IF obj.historyCount > 0
             /\ LET last == obj.history[obj.historyCount]
                IN /\ x >= last.x - searchRangeX /\ x <= last.x + searchRangeX
                   /\ y >= last.y - searchRangeY /\ y <= last.y + searchRangeY
          THEN j
          ELSE MatchObject(t, j + 1, x, y, n)

\* the matched branch: append to (or shift) the history, set current
PushHistory(obj, x, y, w, h) ==
  LET newState == ObjectState(x, y, w, h, 0, 1)
      cur == [obj.current EXCEPT !.x = x, !.y = y, !.w = w, !.h = h]
  IN IF obj.historyCount < MAX_OBJECT_HISTORY
     THEN [obj EXCEPT !.history = Append(obj.history, newState),
                      !.historyCount = obj.historyCount + 1,
                      !.current = cur]
     ELSE [obj EXCEPT !.history = Append(Tail(obj.history), newState),
                      !.current = cur]

\* body of the first loop of trackerProcessDetections for one rect
ProcessRect(t, r) ==
  LET x == r[1]
      y == r[2]
      w == r[3]
      h == r[4]
  IN IF ~(w > 2 /\ h > 2 /\ x > 5 /\ x < t.imageWidth /\ y > 5 /\ y < t.imageHeight)
     THEN t
     ELSE LET j == MatchObject(t, 1, x, y, t.objectCount)
          IN IF j > 0
             THEN [t EXCEPT !.objects[j] = PushHistory(t.objects[j], x, y, w, h)]
             ELSE IF t.objectCount < MAX_TRACKED_OBJECTS
                  THEN LET cur == ObjectState(x, y, w, h, 0, 1)
                           obj == [id |-> t.objectCount + 1, current |-> cur,
                                   history |-> <<cur>>, historyCount |-> 1]
                       IN [t EXCEPT !.objects = Append(t.objects, obj),
                                    !.objectCount = t.objectCount + 1]
                  ELSE t

RECURSIVE ProcessRects(_, _, _, _)
ProcessRects(t, rects, i, count) ==
  IF i >= count THEN t
  ELSE ProcessRects(ProcessRect(t, rects[i + 1]), rects, i + 1, count)

\* body of the second loop ("mark lost objects") for one object
MarkLost(obj) ==
  IF obj.historyCount = 0 THEN obj
  ELSE LET n == obj.historyCount
           last == obj.history[n]
       IN IF last.status = 1
          THEN [obj EXCEPT !.history[n].status = 0]
          ELSE IF last.lostCount + 1 > 6
               THEN [obj EXCEPT !.history = <<>>, !.historyCount = 0]
               ELSE [obj EXCEPT !.history[n].lostCount = last.lostCount + 1]

\* the tracker after trackerProcessDetections(rects, count)
TrackerProcessDetections(t, rects, count) ==
  LET t1 == ProcessRects(t, rects, 0, count)
  IN [t1 EXCEPT !.objects = [i \in 1 .. t1.objectCount |-> MarkLost(t1.objects[i])]]

(***************************************************************************)
(* target_discriminator.cpp.  historyBuffer is kept as the sequence of its *)
(* first historyCount entries and lastScores as the sequence of its first  *)
(* lastScoreCount entries; a TargetHistory is [centerX, centerY, count,    *)
(* hash] with centerX, centerY the sequences of its first count samples.   *)
(***************************************************************************)
MIN_SIZE == 20
MAX_SIZE == 500
STABILITY_FRAMES == 3
MAX_HISTORY_TARGETS == 32
MAX_HISTORY_FRAMES == 5
MAX_LAST_SCORES == 32

MIN_ASPECT_RATIO == FRat(3, 10)

MAX_ASPECT_RATIO == FromInt(3)

\* static inline float clamp(float val, float minVal, float maxVal)
clamp(val, minVal, maxVal) ==
  IF FLt(val, minVal) THEN minVal
  ELSE IF FLt(maxVal, val) THEN maxVal
  ELSE val

\* static inline float absf(float x)
absf(x) == IF FLt(x, FZero) THEN FNeg(x) ELSE x

\* static int rectHash(int x, int y, int w, int h)
rectHash(x, y, w, h) ==
  (CDiv(x, 20) * 1000000) + (CDiv(y, 20) * 1000) + CDiv(w + h, 10)

RECURSIVE FindHash(_, _, _)
FindHash(hb, i, hash) ==
  IF i > Len(hb) THEN 0
  ELSE IF hb[i].hash = hash THEN i
  ELSE FindHash(hb, i + 1, hash)

\* static TargetHistory* getHistory(int hash): the buffer after the call and
\* the (1-based) index of the entry returned
getHistory(hb, hash) ==
  LET i == FindHash(hb, 1, hash)
  IN IF i > 0 THEN [hb |-> hb, idx |-> i]
     ELSE IF Len(hb) < MAX_HISTORY_TARGETS
          THEN [hb |-> Append(hb, [centerX |-> <<>>, centerY |-> <<>>,
                                   count |-> 0, hash |-> hash]),
                idx |-> Len(hb) + 1]
          ELSE [hb |-> hb, idx |-> 1]

\* a full history overwriting its newest sample instead of shifting
addToHistoryKeepingOldest(h, centerX, centerY) ==
  IF h.count < MAX_HISTORY_FRAMES
  THEN [h EXCEPT !.centerX = Append(h.centerX, centerX),
                 !.centerY = Append(h.centerY, centerY),
                 !.count = h.count + 1]
  ELSE [h EXCEPT !.centerX = [@ EXCEPT ![MAX_HISTORY_FRAMES] = centerX],
                 !.centerY = [@ EXCEPT ![MAX_HISTORY_FRAMES] = centerY]]

\* static void addToHistory(TargetHistory* h, int centerX, int centerY)
addToHistory(h, centerX, centerY) ==
  IF h.count < MAX_HISTORY_FRAMES
  THEN [h EXCEPT !.centerX = Append(h.centerX, centerX),
                 !.centerY = Append(h.centerY, centerY),
                 !.count = h.count + 1]
  ELSE [h EXCEPT !.centerX = Append(Tail(h.centerX), centerX),
                 !.centerY = Append(Tail(h.centerY), centerY)]

\* the size score without the factor 2.0f: 0.5 at both ends of the range
SizeScoreHalved(w, h) ==
  IF w * h < MIN_SIZE * MIN_SIZE THEN FZero
  ELSE IF w * h > MAX_SIZE * MAX_SIZE THEN FRat(3, 10)
  ELSE FSub(F1, absf(FSub(FDiv(FromInt(w * h - MIN_SIZE * MIN_SIZE),
                               FromInt(MAX_SIZE * MAX_SIZE - MIN_SIZE * MIN_SIZE)),
                          Half)))

\* 1.0f - absf(normalizedSize - 0.5f) * 2.0f
SizeScore(w, h) ==
  IF w * h < MIN_SIZE * MIN_SIZE THEN FZero
  ELSE IF w * h > MAX_SIZE * MAX_SIZE THEN FRat(3, 10)
  ELSE FSub(F1, FMul(absf(FSub(FDiv(FromInt(w * h - MIN_SIZE * MIN_SIZE),
                                    FromInt(MAX_SIZE * MAX_SIZE - MIN_SIZE * MIN_SIZE)),
                               Half)),
                     FromInt(2)))

AspectBand(aspectRatio) ==
  IF FLt(aspectRatio, MIN_ASPECT_RATIO) \/ FLt(MAX_ASPECT_RATIO, aspectRatio)
  THEN FRat(2, 10)
  ELSE IF FLe(FRat(8, 10), aspectRatio) /\ FLe(aspectRatio, FRat(12, 10))
       THEN F1
       ELSE FRat(7, 10)

\* 2. ASPECT RATIO SCORE
AspectScore(w, h) ==
  AspectBand(IF h > 0 THEN FDiv(FromInt(w), FromInt(h)) ELSE F1)

\* sqrtf((float)a * a + (float)b * b)
Hypot(a, b) == sqrtSumSq(FromInt(a), FromInt(b))

\* The float that is not a number (0.0f / 0.0f), the one value that is not a
\* normalised [m, e]: arithmetic on it gives it again and every comparison
\* with it is false, so that clamp returns it as it is.
NaN == [m |-> 0, e |-> 1]

\* clamp(1.0f - (dist / maxDist), 0.0f, 1.0f) for dist >= 0 and maxDist >= 0:
\* dist / 0 is +infinity for dist > 0, which clamp takes to 0, and 0 / 0 is
\* not a number
ClampedComplement(dist, maxDist) ==
  IF maxDist.m = 0
  THEN IF dist.m = 0 THEN NaN ELSE FZero
  ELSE clamp(FSub(F1, FDiv(dist, maxDist)), FZero, F1)

\* 3. POSITION SCORE
PositionScore(centerX, centerY, imageWidth, imageHeight) ==
  ClampedComplement(Hypot(centerX - CDiv(imageWidth, 2),
                          centerY - CDiv(imageHeight, 2)),
                    Hypot(CDiv(imageWidth, 2), CDiv(imageHeight, 2)))

\* float sum of ints: acc += v[i] for i = 1..n
RECURSIVE SumInts(_, _, _)
SumInts(v, i, acc) ==
  IF i > Len(v) THEN acc ELSE SumInts(v, i + 1, FAdd(acc, FromInt(v[i])))

\* variance += sqrtf(dx * dx + dy * dy) for i = 1..n
RECURSIVE SumDeviation(_, _, _, _, _)
SumDeviation(hist, avgX, avgY, i, acc) ==
  IF i > hist.count THEN acc
  ELSE SumDeviation(hist, avgX, avgY, i + 1,
                    FAdd(acc, sqrtSumSq(FSub(FromInt(hist.centerX[i]), avgX),
                                        FSub(FromInt(hist.centerY[i]), avgY))))

\* 4. STABILITY SCORE of the history entry (the current sample included)
StabilityScore(hist) ==
  IF hist.count >= STABILITY_FRAMES
  THEN FSub(F1, clamp(FDiv(FDiv(SumDeviation(hist,
                                   FDiv(SumInts(hist.centerX, 1, FZero), FromInt(hist.count)),
                                   FDiv(SumInts(hist.centerY, 1, FZero), FromInt(hist.count)),
                                   1, FZero),
                                FromInt(hist.count)),
                           FromInt(50)),
                      FZero, F1))
  ELSE FRat(3, 10)

\* 5. MOTION SCORE
MotionScore(centerX, centerY, lastX, lastY, imageWidth, imageHeight) ==
  IF lastX >= 0 /\ lastY >= 0
  THEN ClampedComplement(Hypot(centerX - lastX, centerY - lastY),
                         Hypot(CDiv(imageWidth, 4), CDiv(imageHeight, 4)))
  ELSE Half

\* sizeScore*0.20f + aspectScore*0.15f + positionScore*0.15f
\*  + stabilityScore*0.25f + motionScore*0.15f + confidence*0.10f
TotalScore(sizeScore, aspectScore, positionScore, stabilityScore, motionScore, confidence) ==
  IF positionScore = NaN \/ motionScore = NaN THEN NaN
  ELSE FAdd(FAdd(FAdd(FAdd(FAdd(FMul(sizeScore, FRat(20, 100)),
                                FMul(aspectScore, FRat(15, 100))),
                           FMul(positionScore, FRat(15, 100))),
                      FMul(stabilityScore, FRat(25, 100))),
                 FMul(motionScore, FRat(15, 100))),
            FMul(confidence, FRat(10, 100)))

\* "Store for later retrieval" and return score.totalScore; sc is the
\* TargetScore filled in by discriminatorEvaluate
StoreScore(hb, ls, sc) ==
  [hb |-> hb,
   ls |-> IF Len(ls) < MAX_LAST_SCORES THEN Append(ls, sc) ELSE ls,
   score |-> sc.totalScore]

\* the TargetScore of the five scores and the confidence
TargetScore(x, y, w, h, sizeScore, aspectScore, positionScore, stabilityScore, motionScore, confidence) ==
  [x |-> x, y |-> y, w |-> w, h |-> h, confidence |-> confidence,
   sizeScore |-> sizeScore, positionScore |-> positionScore,
   stabilityScore |-> stabilityScore, motionScore |-> motionScore,
   totalScore |-> TotalScore(sizeScore, aspectScore, positionScore,
                             stabilityScore, motionScore, confidence)]

\* hist is the history entry of the target after addToHistory, at index idx
EvaluateWithHistory(hb, idx, hist, ls, x, y, w, h, lastX, lastY, imageWidth, imageHeight) ==
  StoreScore([hb EXCEPT ![idx] = hist], ls,
             TargetScore(x, y, w, h, SizeScore(w, h), AspectScore(w, h),
                         PositionScore(x, y, imageWidth, imageHeight),
                         StabilityScore(hist),
                         MotionScore(x, y, lastX, lastY, imageWidth, imageHeight),
                         FRat(8, 10)))

\* got is the outcome of getHistory(hash)
EvaluateWithEntry(got, ls, x, y, w, h, lastX, lastY, imageWidth, imageHeight) ==
  EvaluateWithHistory(got.hb, got.idx, addToHistory(got.hb[got.idx], x, y), ls,
                      x, y, w, h, lastX, lastY, imageWidth, imageHeight)

\* discriminatorEvaluate(x, y, w, h, lastX, lastY, lastW, lastH, imageWidth,
\* imageHeight) on history buffer hb and score cache ls: the new buffer, the
\* new cache and the returned total score
DiscriminatorEvaluate(hb, ls, x, y, w, h, lastX, lastY, imageWidth, imageHeight) ==
  EvaluateWithEntry(getHistory(hb, rectHash(x, y, w, h)), ls,
                    x, y, w, h, lastX, lastY, imageWidth, imageHeight)

\* for (int i = 0; i < count; i++) outScores[i] = discriminatorEvaluate(...),
\* from rect i (1-based) on: scores are the outScores written before it, e is
\* the outcome of its evaluation, last the <<lastX, lastY>> of the call
RECURSIVE EvaluateLoop(_, _, _, _, _, _, _, _, _)
EvaluateLoop(hb, ls, scores, rects, i, count, last, imageWidth, imageHeight) ==
  IF i > count THEN [hb |-> hb, ls |-> ls, scores |-> scores]
  ELSE CHOOSE r \in {EvaluateLoop(e.hb, e.ls, Append(scores, e.score), rects, i + 1,
                                  count, last, imageWidth, imageHeight) :
                       e \in {DiscriminatorEvaluate(hb, ls, rects[i][1], rects[i][2],
                                                    rects[i][3], rects[i][4],
                                                    last[1], last[2],
                                                    imageWidth, imageHeight)}} : TRUE

\* a batch that adds its scores to the cache of the batch before
EvaluateMultipleKeepingCache(hb, ls, rects, count, lastX, lastY, imageWidth, imageHeight) ==
  EvaluateLoop(hb, ls, <<>>, rects, 1, count,
               <<lastX, lastY>>, imageWidth, imageHeight)

\* discriminatorEvaluateMultiple(rects, count, lastX, lastY, lastW, lastH,
\* imageWidth, imageHeight, outScores) on history buffer hb and score cache
\* ls ("lastScoreCount = 0; // Reset for new batch"): the new buffer, the new
\* cache and the outScores written
DiscriminatorEvaluateMultiple(hb, ls, rects, count, lastX, lastY, imageWidth, imageHeight) ==
  EvaluateLoop(hb, <<>>, <<>>, rects, 1, count,
               <<lastX, lastY>>, imageWidth, imageHeight)

\* the loop of discriminatorSelectBest taking a score equal to the best so far
RECURSIVE SelectLoopOrEqual(_, _, _, _, _)
SelectLoopOrEqual(scores, count, i, bestIdx, bestScore) ==
  IF i >= count THEN bestIdx
  ELSE IF FLe(bestScore, scores[i + 1])
       THEN SelectLoopOrEqual(scores, count, i + 1, i, scores[i + 1])
       ELSE SelectLoopOrEqual(scores, count, i + 1, bestIdx, bestScore)

\* for (int i = 0; i < count; i++) if (scores[i] > bestScore) { ... }
RECURSIVE SelectLoop(_, _, _, _, _)
SelectLoop(scores, count, i, bestIdx, bestScore) ==
  IF i >= count THEN bestIdx
  ELSE IF FLt(bestScore, scores[i + 1])
       THEN SelectLoop(scores, count, i + 1, i, scores[i + 1])
       ELSE SelectLoop(scores, count, i + 1, bestIdx, bestScore)

\* int discriminatorSelectBest(float* scores, int count, float minScore)
DiscriminatorSelectBest(scores, count, minScore) ==
  SelectLoop(scores, count, 0, -1, minScore)

(***************************************************************************)
(* guidance_controller.cpp                                                 *)
(*                                                                         *)
(* pidX and pidY are the entries 0 and 1 of one function; servoAngles is a *)
(* function on 0 .. 3.                                                     *)
(***************************************************************************)
\* static PIDController pidX = {0}, pidY = {0}
PidZero ==
  [kp |-> FZero, ki |-> FZero, kd |-> FZero,
   integral |-> FZero, prevError |-> FZero, prevOutput |-> FZero,
   outputMin |-> FZero, outputMax |-> FZero, integralMax |-> FZero,
   alpha |-> FZero, initialized |-> FALSE]

\* PIDController* pid = (axis == 0) ? &pidX : &pidY
Axis(axis) == IF axis = 0 THEN 0 ELSE 1

\* pidInit on controller p
PidInit(p, kp, ki, kd, outputMin, outputMax, alpha) ==
  [kp |-> kp, ki |-> ki, kd |-> kd,
   integral |-> FZero, prevError |-> FZero, prevOutput |-> FZero,
   outputMin |-> outputMin, outputMax |-> outputMax,
   integralMax |-> FMul(outputMax, Half),
   alpha |-> alpha, initialized |-> TRUE]

\* an integral limited on its upper side only
AntiWindupAbove(integral, integralMax) ==
  IF FLt(integralMax, integral) THEN integralMax ELSE integral

\* if (integral > integralMax) integral = integralMax;
\* if (integral < -integralMax) integral = -integralMax
AntiWindup(integral, integralMax) ==
  IF FLt(integralMax, integral)
  THEN (IF FLt(integralMax, FNeg(integralMax)) THEN FNeg(integralMax) ELSE integralMax)
  ELSE IF FLt(integral, FNeg(integralMax)) THEN FNeg(integralMax)
  ELSE integral

\* if (output < outputMin) output = outputMin;
\* if (output > outputMax) output = outputMax
ClampOutput(output, outputMin, outputMax) ==
  IF FLt(output, outputMin)
  THEN (IF FLt(outputMax, outputMin) THEN outputMax ELSE outputMin)
  ELSE IF FLt(outputMax, output) THEN outputMax
  ELSE output

\* output is the low-pass filtered sum: stored in prevOutput, returned clamped
PidFiltered(p, error, integral, output) ==
  [pid |-> [p EXCEPT !.integral = integral, !.prevError = error, !.prevOutput = output],
   output |-> ClampOutput(output, p.outputMin, p.outputMax)]

\* pTerm + iTerm + dTerm, then alpha * output + (1.0f - alpha) * prevOutput
PidSummed(p, error, dt, integral) ==
  PidFiltered(p, error, integral,
    FAdd(FMul(p.alpha,
              FAdd(FAdd(FMul(p.kp, error), FMul(p.ki, integral)),
                   FMul(p.kd, FDiv(FSub(error, p.prevError), dt)))),
         FMul(FSub(F1, p.alpha), p.prevOutput)))

\* pidUpdate with dt > 0
PidStep(p, error, dt) ==
  PidSummed(p, error, dt, AntiWindup(FAdd(p.integral, FMul(error, dt)), p.integralMax))

\* float pidUpdate(int axis, float error, float dt) on controller p: the
\* controller after the call and the returned output
PidUpdate(p, error, dt) ==
  IF ~p.initialized THEN [pid |-> p, output |-> FZero]
  ELSE PidStep(p, error, IF FLe(dt, FZero) THEN FRat(33, 1000) ELSE dt)

\* pidReset on controller p
PidReset(p) ==
  [p EXCEPT !.integral = FZero, !.prevError = FZero, !.prevOutput = FZero]

\* static GuidanceState guidance = { .alpha = 0.6f, .cmdMin = -25.0f,
\* .cmdMax = 25.0f, .tracking = false }
GuidanceStatic ==
  [rawErrorX |-> FZero, rawErrorY |-> FZero,
   filteredErrorX |-> FZero, filteredErrorY |-> FZero,
   pitchCmd |-> FZero, yawCmd |-> FZero,
   servoAngles |-> [i \in 0 .. 3 |-> FZero],
   alpha |-> FRat(6, 10), cmdMin |-> FNeg(FromInt(25)), cmdMax |-> FromInt(25),
   tracking |-> FALSE]

GuidanceResult(g, p) == [guidance |-> g, pid |-> p]

\* guidanceInit(alpha, cmdMax) on guidance state g and controllers p
GuidanceInit(g, p, alpha, cmdMax) ==
  GuidanceResult(
    [g EXCEPT !.alpha = alpha, !.cmdMax = cmdMax, !.cmdMin = FNeg(cmdMax)],
    [axis \in {0, 1} |->
       PidInit(p[axis], Half, FZero, FRat(1, 10), FNeg(cmdMax), cmdMax, alpha)])

\* guidanceStart()
GuidanceStart(g, p) ==
  GuidanceResult(
    [g EXCEPT !.tracking = TRUE, !.filteredErrorX = FZero, !.filteredErrorY = FZero],
    [axis \in {0, 1} |-> PidReset(p[axis])])

\* guidanceStop()
GuidanceStop(g, p) ==
  GuidanceResult(
    [g EXCEPT !.tracking = FALSE, !.pitchCmd = FZero, !.yawCmd = FZero,
              !.servoAngles = [i \in 0 .. 3 |-> FZero]],
    p)

\* (s < min) ? min : (s > max) ? max : s
MixClamp(sv, min, max) ==
  IF FLt(sv, min) THEN min ELSE IF FLt(max, sv) THEN max ELSE sv

\* a mixing whose servos 2 and 3 are swapped
XMixSwapped(g, pc, yc) ==
  [g EXCEPT !.pitchCmd = pc, !.yawCmd = yc,
            !.servoAngles =
               (0 :> MixClamp(FAdd(pc, yc), g.cmdMin, g.cmdMax)) @@
               (1 :> MixClamp(FSub(pc, yc), g.cmdMin, g.cmdMax)) @@
               (2 :> MixClamp(FAdd(FNeg(pc), yc), g.cmdMin, g.cmdMax)) @@
               (3 :> MixClamp(FSub(FNeg(pc), yc), g.cmdMin, g.cmdMax))]

\* "X-Mixing for 4 servos" of pitch command pc and yaw command yc
XMix(g, pc, yc) ==
  [g EXCEPT !.pitchCmd = pc, !.yawCmd = yc,
            !.servoAngles =
               (0 :> MixClamp(FAdd(pc, yc), g.cmdMin, g.cmdMax)) @@
               (1 :> MixClamp(FSub(pc, yc), g.cmdMin, g.cmdMax)) @@
               (2 :> MixClamp(FSub(FNeg(pc), yc), g.cmdMin, g.cmdMax)) @@
               (3 :> MixClamp(FAdd(FNeg(pc), yc), g.cmdMin, g.cmdMax))]

\* yaw and pitch are the outcomes of pidUpdate(0, ...) and pidUpdate(1, ...)
UpdateWithPids(g, yaw, pitch) ==
  GuidanceResult(XMix(g, FNeg(pitch.output), yaw.output),
                 (0 :> yaw.pid) @@ (1 :> pitch.pid))

\* g holds the new raw and filtered errors
UpdateWithErrors(g, p, dt) ==
  UpdateWithPids(g, PidUpdate(p[0], g.filteredErrorX, dt),
                 PidUpdate(p[1], g.filteredErrorY, dt))

\* guidanceUpdate without the test of guidance.tracking
GuidanceUpdateAlways(g, p, errorX, errorY, dt) ==
  UpdateWithErrors(
    [g EXCEPT !.rawErrorX = errorX, !.rawErrorY = errorY,
              !.filteredErrorX = FAdd(FMul(g.alpha, errorX),
                                      FMul(FSub(F1, g.alpha), g.filteredErrorX)),
              !.filteredErrorY = FAdd(FMul(g.alpha, errorY),
                                      FMul(FSub(F1, g.alpha), g.filteredErrorY))],
    p, dt)

\* guidanceUpdate(errorX, errorY, dt)
GuidanceUpdate(g, p, errorX, errorY, dt) ==
  IF ~g.tracking THEN GuidanceResult(g, p)
  ELSE UpdateWithErrors(
         [g EXCEPT !.rawErrorX = errorX, !.rawErrorY = errorY,
                   !.filteredErrorX = FAdd(FMul(g.alpha, errorX),
                                           FMul(FSub(F1, g.alpha), g.filteredErrorX)),
                   !.filteredErrorY = FAdd(FMul(g.alpha, errorY),
                                           FMul(FSub(F1, g.alpha), g.filteredErrorY))],
         p, dt)

(***************************************************************************)
(* guidance_controller.cpp: sensor fusion (IMU + GPS).  The state mixes    *)
(* `double` fields with one `float` (alpha) and takes `float` arguments:   *)
(* here a double has MantBits significant bits and a float FloatBits, so   *)
(* that a float widens to a double exactly and the double has more than    *)
(* twice the float's bits, as 53 to 24.                                    *)
(***************************************************************************)
FloatBits == 6

\* number of bits a double drops when it is narrowed to a float
NarrowBits == MantBits - FloatBits

\* round-to-nearest-even of a significand of which the low NarrowBits go
NarrowRound(q, rem, half) ==
  IF rem > half \/ (rem = half /\ q % 2 = 1) THEN q + 1 ELSE q

\* (float)a
ToFloat(a) ==
  IF a.m = 0 THEN FZero
  ELSE Norm(Sgn(a.m) * NarrowRound(Abs(a.m) \div Pow2(NarrowBits),
                                   Abs(a.m) % Pow2(NarrowBits), Pow2(NarrowBits - 1)),
            a.e + NarrowBits)

\* M_PI
Pi == FRat(355, 113)

\* cos(x) for |x| <= pi/2 (a latitude in radians), by its series to x^8
CosSeries(x2) ==
  FSub(F1, FMul(FDiv(x2, FromInt(2)),
    FSub(F1, FMul(FDiv(x2, FromInt(12)),
      FSub(F1, FMul(FDiv(x2, FromInt(30)),
        FSub(F1, FDiv(x2, FromInt(56)))))))))

Cos(x) == CosSeries(FMul(x, x))

\* 1 degree of latitude in metres: 111000.0
MetersPerDegree == FromInt(111000)

\* static SensorFusionState fusion = { .alpha = 0.98f, .hasGpsFix = false }
FusionStatic ==
  [gpsLat |-> FZero, gpsLon |-> FZero, gpsAlt |-> FZero, gpsTimestamp |-> 0,
   offsetN |-> FZero, offsetE |-> FZero, offsetD |-> FZero,
   velN |-> FZero, velE |-> FZero, velD |-> FZero,
   fusedLat |-> FZero, fusedLon |-> FZero, fusedAlt |-> FZero,
   alpha |-> ToFloat(FRat(98, 100)), hasGpsFix |-> FALSE]

FusionInit(f, alpha) ==
  [f EXCEPT !.alpha = alpha, !.hasGpsFix = FALSE,
            !.offsetN = FZero, !.offsetE = FZero, !.offsetD = FZero,
            !.velN = FZero, !.velE = FZero, !.velD = FZero]

\* the factor 1 - alpha
GpsDecayComplement(alpha) == FSub(F1, alpha)

\* (1.0 - (1.0 - fusion.alpha)), in double
GpsDecay(alpha) == FSub(F1, FSub(F1, alpha))

\* fusionUpdateGps recomputing the fused position from the new fix
FusionUpdateGpsFusing(f, lat, lon, alt, timestamp) ==
  [f EXCEPT !.gpsLat = lat, !.gpsLon = lon, !.gpsAlt = alt, !.gpsTimestamp = timestamp,
            !.offsetN = FMul(@, GpsDecay(f.alpha)),
            !.offsetE = FMul(@, GpsDecay(f.alpha)),
            !.offsetD = FMul(@, GpsDecay(f.alpha)),
            !.hasGpsFix = TRUE,
            !.fusedLat = FAdd(lat, FDiv(FMul(f.offsetN, GpsDecay(f.alpha)),
                                        MetersPerDegree)),
            !.fusedAlt = FSub(alt, FMul(f.offsetD, GpsDecay(f.alpha)))]

FusionUpdateGps(f, lat, lon, alt, timestamp) ==
  [f EXCEPT !.gpsLat = lat, !.gpsLon = lon, !.gpsAlt = alt, !.gpsTimestamp = timestamp,
            !.offsetN = FMul(@, GpsDecay(f.alpha)),
            !.offsetE = FMul(@, GpsDecay(f.alpha)),
            !.offsetD = FMul(@, GpsDecay(f.alpha)),
            !.hasGpsFix = TRUE]

\* fusedLat, fusedLon, fusedAlt from the fix and the offsets
FusePosition(f) ==
  [f EXCEPT !.fusedLat = FAdd(f.gpsLat, FDiv(f.offsetN, MetersPerDegree)),
            !.fusedLon = FAdd(f.gpsLon,
                 FDiv(f.offsetE,
                      FMul(MetersPerDegree,
                           Cos(FDiv(FMul(f.gpsLat, Pi), FromInt(180)))))),
            !.fusedAlt = FSub(f.gpsAlt, f.offsetD)]

\* offset += vel * dt
IntegrateVelocity(f, dt) ==
  FusePosition([f EXCEPT !.offsetN = FAdd(@, FMul(f.velN, dt)),
                         !.offsetE = FAdd(@, FMul(f.velE, dt)),
                         !.offsetD = FAdd(@, FMul(f.velD, dt))])

\* vel += accel * dt, the product being a float
Integrate(f, accelN, accelE, accelD, dt) ==
  IntegrateVelocity([f EXCEPT !.velN = FAdd(@, ToFloat(FMul(accelN, dt))),
                              !.velE = FAdd(@, ToFloat(FMul(accelE, dt))),
                              !.velD = FAdd(@, ToFloat(FMul(accelD, dt)))], dt)

\* an integration that does not look at the fix flag
FusionIntegrateImuAlways(f, accelN, accelE, accelD, dt) ==
  Integrate(f, accelN, accelE, accelD, dt)

FusionIntegrateImu(f, accelN, accelE, accelD, dt) ==
  IF ~f.hasGpsFix THEN f ELSE Integrate(f, accelN, accelE, accelD, dt)

(***************************************************************************)
(* The servo position frame, as the application encodes it                 *)
(* (servo_protocol.cpp) and as the bridge firmware encodes it              *)
(* (Core/Src/servo_driver.c).  Bytes are numbers 0 .. 255; a >> 7 is       *)
(* a \div 128 and a & 0x7F is a % 128 also for a negative int.             *)
(***************************************************************************)
RECURSIVE BitXor(_, _)
\* a ^ b on non-negative numbers
BitXor(a, b) ==
  IF a = 0 /\ b = 0 THEN 0 ELSE ((a + b) % 2) + 2 * BitXor(a \div 2, b \div 2)

RECURSIVE BitOr(_, _)
\* a | b on non-negative numbers
BitOr(a, b) ==
  IF a = 0 /\ b = 0 THEN 0
  ELSE (IF a % 2 = 1 \/ b % 2 = 1 THEN 1 ELSE 0) + 2 * BitOr(a \div 2, b \div 2)

\* (uint8_t)n
U8(n) == n % 256

SERVO_FRAME_SIZE == 5
SERVO_SYNC_BASE == 128
SERVO_OPCODE_POSITION == 8
POSITION_MIN == 0
POSITION_MAX == 16383
SERVO_MAX_POS == 16383

clampi(val, minVal, maxVal) ==
  IF val < minVal THEN minVal ELSE IF val > maxVal THEN maxVal ELSE val

\* the frame of servo_protocol.cpp from the servo id and the clamped position
FormatFrame(syncId, id, hPos, lPos) ==
  <<syncId, id, hPos, lPos, U8(BitXor(BitXor(BitXor(syncId, id), hPos), lPos) % 128)>>

FormatClamped(servoId, clampedPosition) ==
  FormatFrame(U8(BitOr(BitOr(SERVO_SYNC_BASE, SERVO_OPCODE_POSITION), (servoId \div 128) % 4)),
              U8(servoId % 128),
              U8((clampedPosition \div 128) % 128),
              U8(clampedPosition % 128))

\* servoFormatPositionCommand without the clamp
ServoFormatUnclamped(servoId, position) == FormatClamped(servoId, position)

\* servoFormatPositionCommand: the bytes stored in outBuffer
ServoFormatPositionCommand(servoId, position) ==
  FormatClamped(servoId, clampi(position, POSITION_MIN, POSITION_MAX))

\* if (position < 0) position = 0; if (position > SERVO_MAX_POS) position = SERVO_MAX_POS
PacketPosition(position) ==
  IF (IF position < 0 THEN 0 ELSE position) > SERVO_MAX_POS THEN SERVO_MAX_POS
  ELSE IF position < 0 THEN 0 ELSE position

PacketBytes(syncId, id, hPos, lPos) ==
  <<syncId, id, hPos, lPos, U8(BitXor(BitXor(BitXor(syncId, id), hPos), lPos) % 128)>>

\* Servo_BuildPacket: the bytes stored in packetOut; servoId is a uint8_t
ServoBuildPacket(servoId, position) ==
  PacketBytes(U8(BitOr(BitOr(128, 8), (U8(servoId) \div 128) % 4)),
              U8(U8(servoId) % 128),
              U8((PacketPosition(position) \div 128) % 128),
              U8(PacketPosition(position) % 128))

\* servo_protocol.cpp: the feedback parser.
POSITION_CENTER == 8191

\* UNITS_PER_DEGREE 40.0f
UNITS_PER_DEGREE == FromInt(40)

\* float servoPositionToAngle(int position)
ServoPositionToAngle(position) ==
  FDiv(FromInt(clampi(position, POSITION_MIN, POSITION_MAX) - POSITION_CENTER),
       UNITS_PER_DEGREE)

\* the loop `for (i = 0; i <= length - 5; i++) if ((data[i] & 0x80) != 0)`
\* from index i on: the index found, -1 when none.  data[i + 1] is the C data[i].
RECURSIVE FindSync(_, _, _)
FindSync(data, i, length) ==
  IF i > length - 5 THEN -1
  ELSE IF (data[i + 1] \div 128) % 2 # 0 THEN i
  ELSE FindSync(data, i + 1, length)

\* *outFeedback as servoParseFeedback initialises it
InvalidFeedback == [valid |-> 0, servoId |-> -1, position |-> 0, angleDegrees |-> FZero]

\* the feedback decoded from the frame at startIdx, its checksum verified
DecodedFeedback(syncId, id, hPos, lPos) ==
  [valid |-> 1,
   servoId |-> BitOr((syncId % 4) * 128, id % 128),
   position |-> BitOr((hPos % 128) * 128, lPos % 128),
   angleDegrees |-> ServoPositionToAngle(BitOr((hPos % 128) * 128, lPos % 128))]

\* the test of the checksum and what follows it
ParseFrame(syncId, id, hPos, lPos, checksum) ==
  IF checksum # U8(BitXor(BitXor(BitXor(syncId, id), hPos), lPos) % 128)
  THEN [ret |-> 0, fb |-> InvalidFeedback]
  ELSE [ret |-> 1, fb |-> DecodedFeedback(syncId, id, hPos, lPos)]

\* the part of servoParseFeedback after the search of the sync byte
ParseAt(data, startIdx) ==
  IF startIdx < 0 THEN [ret |-> 0, fb |-> InvalidFeedback]
  ELSE ParseFrame(data[startIdx + 1], data[startIdx + 2], data[startIdx + 3],
                  data[startIdx + 4], data[startIdx + 5])

\* int servoParseFeedback(const uint8_t* data, int length, ServoFeedback*
\* outFeedback): the return value and *outFeedback
ServoParseFeedback(data, length) ==
  IF length < 5 THEN [ret |-> 0, fb |-> InvalidFeedback]
  ELSE ParseAt(data, FindSync(data, 0, length))

(***************************************************************************)
(* The bridge firmware (Core/Src/main.c, Core/Src/can_bridge.c).  An       *)
(* interrupt handler runs to its end between two steps of main's loop;     *)
(* the loop is cut at each access to a variable shared with a handler.     *)
(***************************************************************************)
CMD_QUEUE_SIZE == 8
RX_BUFFER_SIZE == 128
FEEDBACK_FRAME_LEN == 7
FEEDBACK_RX_OFFSET == 1408
DEBUG_ID == 1433
SERVO_CENTER_POS == 8191

\* main's loop at `while (1) {`, its locals not yet assigned
MainAtTop == [pc |-> "queue", sid |-> 0, pos |-> 0, bytes |-> <<>>]

\* (int32_t)d[4] | ((int32_t)d[5] << 8) | ((int32_t)d[6] << 16) |
\* ((int32_t)d[7] << 24), the top byte giving the sign; data[i + 1] is d[i]
CanValue(data) ==
  data[5] + 256 * data[6] + 65536 * data[7]
    + 16777216 * (IF data[8] >= 128 THEN data[8] - 256 ELSE data[8])

\* the bytes d[4] .. d[7] of an int32_t
Int32Bytes(v) ==
  <<v % 256, (v \div 256) % 256, (v \div 65536) % 256, (v \div 16777216) % 256>>

\* neither canValue * 4 nor the sum with SERVO_CENTER_POS leaves int32_t
SdoInRange(canValue) ==
  canValue >= -536870912 /\ canValue <= 536870911 - 2047

\* (canValue * 4) + SERVO_CENTER_POS modulo 2^32, as an int32_t: the sum is
\* 4 * (canValue + 2047) + 3
SdoWrapped(canValue) ==
  LET q == ((canValue % Pow2(30)) + 2047) % Pow2(30)
  IN IF q < Pow2(29) THEN 4 * q + 3 ELSE 4 * (q - Pow2(30)) + 3

\* the sum as a compiler that takes signed overflow for impossible may fold
\* it into the tests of the clamp: below 0, above SERVO_MAX_POS, or exact
SdoFolded(canValue) ==
  IF canValue < -2047 THEN -1
  ELSE IF canValue > 2048 THEN SERVO_MAX_POS + 1
  ELSE 4 * canValue + SERVO_CENTER_POS

\* int32_t position = (canValue * 4) + SERVO_CENTER_POS: the values the
\* build can give it.  A signed overflow is undefined behaviour.
SdoPositions(canValue) ==
  IF SdoInRange(canValue) THEN {4 * canValue + SERVO_CENTER_POS}
  ELSE {SdoWrapped(canValue), SdoFolded(canValue)}

\* canData[0] == 0x22 && canData[1] == 0x03 && canData[2] == 0x60
SdoSignature(data) == data[1] = 34 /\ data[2] = 3 /\ data[3] = 96

\* the handler storing a command whether or not the queue has room
EnqueueUnchecked(queue, head, tail, cmd) ==
  [queue |-> [queue EXCEPT ![head] = cmd], head |-> (head + 1) % CMD_QUEUE_SIZE]

\* nextHead = (cmdQueueHead + 1) % CMD_QUEUE_SIZE; if (nextHead !=
\* cmdQueueTail) { cmdQueue[cmdQueueHead] = cmd; cmdQueueHead = nextHead; }
Enqueue(queue, head, tail, cmd) ==
  IF (head + 1) % CMD_QUEUE_SIZE # tail
  THEN [queue |-> [queue EXCEPT ![head] = cmd], head |-> (head + 1) % CMD_QUEUE_SIZE]
  ELSE [queue |-> queue, head |-> head]

\* for (i = 0; i < Size; i++) { rxRingBuffer[rxRingHead] = dmaRxBuffer[i];
\* rxRingHead = (rxRingHead + 1) % RX_BUFFER_SIZE; } from index i on;
\* bytes[i + 1] is dmaRxBuffer[i] and Size is Len(bytes)
RECURSIVE RingWrite(_, _, _, _)
RingWrite(ring, head, bytes, i) ==
  IF i >= Len(bytes) THEN [ring |-> ring, head |-> head]
  ELSE RingWrite([ring EXCEPT ![head] = bytes[i + 1]], (head + 1) % RX_BUFFER_SIZE,
                 bytes, i + 1)

\* uint16_t available
Available(head, tail) ==
  IF head >= tail THEN head - tail ELSE RX_BUFFER_SIZE - tail + head

\* tempFrame, as a sequence
RingFrame(ring, tail) ==
  [k \in 1 .. FEEDBACK_FRAME_LEN |-> ring[(tail + k - 1) % RX_BUFFER_SIZE]]

\* feedbackBuffer[k] = tempFrame[k] for k < FEEDBACK_FRAME_LEN
CopyFrame(buffer, frame) ==
  [k \in DOMAIN buffer |-> IF k < FEEDBACK_FRAME_LEN THEN frame[k + 1] ELSE buffer[k]]

\* the `while (1)` of the callback; e is [tail, buffer, ready, log]: rxRingTail,
\* feedbackBuffer, feedbackReady and the frames extracted
RECURSIVE ExtractFrames(_, _, _)
ExtractFrames(ring, head, e) ==
  IF Available(head, e.tail) < FEEDBACK_FRAME_LEN THEN e
  ELSE IF (ring[e.tail] \div 128) % 2 = 1
       THEN ExtractFrames(ring, head,
              [tail |-> (e.tail + FEEDBACK_FRAME_LEN) % RX_BUFFER_SIZE,
               buffer |-> CopyFrame(e.buffer, RingFrame(ring, e.tail)),
               ready |-> 1,
               log |-> Append(e.log, RingFrame(ring, e.tail))])
       ELSE ExtractFrames(ring, head, [e EXCEPT !.tail = (e.tail + 1) % RX_BUFFER_SIZE])

\* uint16_t Servo_ExtractPosition(uint8_t byte2, uint8_t byte3)
Servo_ExtractPosition(byte2, byte3) ==
  BitOr((byte2 % 128) * 128, byte3 % 128) % 65536

\* servoId = byte1 & 0x0F; if (servoId < 1 || servoId > 4) servoId = 1
FeedbackServoId(byte1) ==
  IF byte1 % 16 < 1 \/ byte1 % 16 > 4 THEN 1 ELSE byte1 % 16

\* the message Bridge_ProcessFeedback sends on FEEDBACK_RX_OFFSET + servoId
FeedbackMessage(byte1, byte2, byte3) ==
  [StdId |-> FEEDBACK_RX_OFFSET + FeedbackServoId(byte1), DLC |-> 8,
   data |-> <<Servo_ExtractPosition(byte2, byte3) % 256,
              (Servo_ExtractPosition(byte2, byte3) \div 256) % 256, 0, 0, 0, 0, 0, 0>>]

\* the message it sends on DEBUG_ID: buffer[0 .. 6] and the marker 0xAA
DebugMessage(buffer) ==
  [StdId |-> DEBUG_ID, DLC |-> 8,
   data |-> [k \in 1 .. 8 |-> IF k <= FEEDBACK_FRAME_LEN THEN buffer[k - 1] ELSE 170]]

(***************************************************************************)
(* filters.cpp: the filter slots.                                          *)
(***************************************************************************)
\* static IIRFilter iirFilters[16] = {0}
IirZero == [alpha |-> FZero, value |-> FZero, initialized |-> FALSE]

\* static VectorFilter vecFilters[8] = {0}
VecZero == [alpha |-> FZero, x |-> FZero, y |-> FZero, z |-> FZero, initialized |-> FALSE]

\* static ComplementaryFilter compFilters[8] = {0}
CompZero == [alpha |-> FZero, value |-> FZero, initialized |-> FALSE]

MA_MAX_SIZE == 64

\* static MovingAverage maFilters[8] = {0}
MaZero ==
  [buffer |-> [i \in 0 .. MA_MAX_SIZE - 1 |-> FZero], size |-> 0, index |-> 0,
   sum |-> FZero, count |-> 0]

\* the result of a filter call: the slots after it and its return value
Filtered(slots, r) == [slots |-> slots, ret |-> r]

\* alpha * input + (1.0f - alpha) * value
Blend(alpha, input, value) == FAdd(FMul(alpha, input), FMul(FSub(F1, alpha), value))

IirInit(fs, id, alpha) ==
  IF id < 0 \/ id >= 16 THEN fs
  ELSE [fs EXCEPT ![id] = [alpha |-> alpha, value |-> FZero, initialized |-> FALSE]]

IirUpdate(fs, id, input) ==
  IF id < 0 \/ id >= 16 THEN Filtered(fs, input)
  ELSE IF ~fs[id].initialized
         THEN Filtered([fs EXCEPT ![id].value = input, ![id].initialized = TRUE], input)
         ELSE Filtered([fs EXCEPT ![id].value = Blend(fs[id].alpha, input, fs[id].value)],
                       Blend(fs[id].alpha, input, fs[id].value))

IirGet(fs, id) == IF id < 0 \/ id >= 16 THEN FZero ELSE fs[id].value

IirReset(fs, id) ==
  IF id < 0 \/ id >= 16 THEN fs
  ELSE [fs EXCEPT ![id].initialized = FALSE, ![id].value = FZero]

VecFilterInit(fs, id, alpha) ==
  IF id < 0 \/ id >= 8 THEN fs
  ELSE [fs EXCEPT ![id] = [alpha |-> alpha, x |-> FZero, y |-> FZero, z |-> FZero,
                           initialized |-> FALSE]]

\* the slot after an update with <<inX, inY, inZ>>
VecStep(f, in) ==
  IF ~f.initialized
    THEN [f EXCEPT !.x = in[1], !.y = in[2], !.z = in[3], !.initialized = TRUE]
    ELSE [f EXCEPT !.x = Blend(f.alpha, in[1], f.x), !.y = Blend(f.alpha, in[2], f.y),
                   !.z = Blend(f.alpha, in[3], f.z)]

\* ret: <<*outX, *outY, *outZ>>
VecFilterUpdate(fs, id, in) ==
  IF id < 0 \/ id >= 8 THEN Filtered(fs, in)
  ELSE Filtered([fs EXCEPT ![id] = VecStep(fs[id], in)],
                <<VecStep(fs[id], in).x, VecStep(fs[id], in).y, VecStep(fs[id], in).z>>)

CompFilterInit(fs, id, alpha) ==
  IF id < 0 \/ id >= 8 THEN fs
  ELSE [fs EXCEPT ![id] = [alpha |-> alpha, value |-> FZero, initialized |-> FALSE]]

\* f.alpha * highFreq + (1.0f - f.alpha) * lowFreq, or lowFreq the first time
CompValue(f, highFreq, lowFreq) ==
  IF ~f.initialized THEN lowFreq ELSE Blend(f.alpha, highFreq, lowFreq)

\* a complementary filter that hands highFreq back for a slot out of range
CompFilterUpdateHigh(fs, id, highFreq, lowFreq) ==
  IF id < 0 \/ id >= 8 THEN Filtered(fs, highFreq)
  ELSE Filtered([fs EXCEPT ![id].value = CompValue(fs[id], highFreq, lowFreq),
                           ![id].initialized = TRUE],
                CompValue(fs[id], highFreq, lowFreq))

CompFilterUpdate(fs, id, highFreq, lowFreq) ==
  IF id < 0 \/ id >= 8 THEN Filtered(fs, lowFreq)
  ELSE Filtered([fs EXCEPT ![id].value = CompValue(fs[id], highFreq, lowFreq),
                           ![id].initialized = TRUE],
                CompValue(fs[id], highFreq, lowFreq))

MaInit(fs, id, size) ==
  IF id < 0 \/ id >= 8 THEN fs
  ELSE [fs EXCEPT ![id] = [MaZero EXCEPT !.size = IF size > MA_MAX_SIZE THEN MA_MAX_SIZE
                                                  ELSE size]]

\* if (f.count >= f.size) f.sum -= f.buffer[f.index]; else f.count++;
\* f.buffer[f.index] = input; f.sum += input
MaAccumulate(f, input) ==
  IF f.count >= f.size
    THEN [f EXCEPT !.sum = FAdd(FSub(f.sum, f.buffer[f.index]), input),
                   !.buffer[f.index] = input]
    ELSE [f EXCEPT !.count = f.count + 1, !.sum = FAdd(f.sum, input),
                   !.buffer[f.index] = input]

\* (f.index + 1) % f.size; with f.size = 0 the remainder is undefined: a build
\* that traps ends there, one that does not keeps f.index + 1
MaAdvance(f) ==
  IF f.size > 0 THEN [f EXCEPT !.index = (f.index + 1) % f.size]
  ELSE IF f.size < 0 THEN [f EXCEPT !.index = (f.index + 1) % (-(f.size))]
  ELSE [f EXCEPT !.index = f.index + 1]

\* f.sum / f.count; not finite when f.count = 0
MaMean(f) == IF f.count = 0 THEN NaN ELSE FDiv(f.sum, FromInt(f.count))

MaUpdate(fs, id, input) ==
  IF id < 0 \/ id >= 8 THEN Filtered(fs, input)
  ELSE Filtered([fs EXCEPT ![id] = MaAdvance(MaAccumulate(fs[id], input))],
                MaMean(MaAccumulate(fs[id], input)))

(***************************************************************************)
(* telemetry.cpp: the telemetry record and its 73-byte frame.  The fields  *)
(* are numbers in the range of their C type; the uint32_t timestamp is     *)
(* used below 2^31.                                                        *)
(***************************************************************************)
TELEMETRY_FRAME_SIZE == 73
TELEMETRY_HEADER_1 == 170
TELEMETRY_HEADER_2 == 85

\* (int16_t)n
I16(n) == ((n + 32768) % 65536) - 32768

\* (uint16_t)n
U16(n) == n % 65536

\* static TelemetryData telem = {0}
TelemetryZero ==
  [timestamp |-> 0, roll |-> 0, pitch |-> 0, yaw |-> 0,
   accX |-> 0, accY |-> 0, accZ |-> 0, pressure |-> 0, baroAltitude |-> 0,
   latitude |-> 0, longitude |-> 0, gpsAltitude |-> 0, speed |-> 0, heading |-> 0,
   satellites |-> 0, gpsFix |-> 0, hdop |-> 0,
   s1Cmd |-> 0, s2Cmd |-> 0, s3Cmd |-> 0, s4Cmd |-> 0,
   s1Fb |-> 0, s2Fb |-> 0, s3Fb |-> 0, s4Fb |-> 0, servoOnline |-> 0,
   targetX |-> 0, targetY |-> 0, targetW |-> 0, targetH |-> 0,
   batteryPercent |-> 0, isCharging |-> 0, batteryVoltage |-> 0, temperature |-> 0]

\* (int16_t)(v * scale)
Scaled16(v, scale) == I16(Trunc(FMul(v, FromInt(scale))))

\* the two bytes of a 16-bit value, high byte first
writeBE16(val) == <<(val \div 256) % 256, val % 256>>

\* writeLE16, writeLE16U: buf[0] = val & 0xFF; buf[1] = (val >> 8) & 0xFF
writeLE16(val) == <<val % 256, (val \div 256) % 256>>

\* writeLE32, writeLE32U
writeLE32(val) ==
  <<val % 256, (val \div 256) % 256, (val \div 65536) % 256, (val \div 16777216) % 256>>

RECURSIVE XorBytes(_, _, _)
\* checksum ^= outBuffer[i] for i < idx, from byte i on with checksum so far
XorBytes(buf, i, checksum) ==
  IF i > Len(buf) THEN checksum
  ELSE CHOOSE r \in {XorBytes(buf, i + 1, c) : c \in {BitXor(checksum, buf[i])}} : TRUE

\* the bytes of the frame before the checksum
FrameBody(t) ==
  <<TELEMETRY_HEADER_1, TELEMETRY_HEADER_2, U8(TELEMETRY_FRAME_SIZE - 3)>>
  \o writeLE32(t.timestamp)
  \o writeLE16(t.roll) \o writeLE16(t.pitch) \o writeLE16(t.yaw)
  \o writeLE16(t.accX) \o writeLE16(t.accY) \o writeLE16(t.accZ)
  \o writeLE16(t.pressure) \o writeLE16(t.baroAltitude)
  \o writeLE32(t.latitude) \o writeLE32(t.longitude)
  \o writeLE16(t.gpsAltitude) \o writeLE16(t.speed) \o writeLE16(t.heading)
  \o <<t.satellites, t.gpsFix>> \o writeLE16(t.hdop)
  \o writeLE16(t.s1Cmd) \o writeLE16(t.s2Cmd) \o writeLE16(t.s3Cmd) \o writeLE16(t.s4Cmd)
  \o writeLE16(t.s1Fb) \o writeLE16(t.s2Fb) \o writeLE16(t.s3Fb) \o writeLE16(t.s4Fb)
  \o <<t.servoOnline>>
  \o writeLE16(t.targetX) \o writeLE16(t.targetY)
  \o writeLE16(t.targetW) \o writeLE16(t.targetH)
  \o <<t.batteryPercent, t.isCharging>> \o writeLE16(t.batteryVoltage)
  \o writeLE16(t.temperature)

\* outBuffer[idx++] = checksum
WithChecksum(body) == Append(body, XorBytes(body, 1, 0))

\* telemetryBuildFrame with maxLen >= TELEMETRY_FRAME_SIZE: the bytes written
TelemetryFrame(t) == WithChecksum(FrameBody(t))

(***************************************************************************)
(* The state machine.                                                      *)
(***************************************************************************)
VARIABLES
  tracker,        \* static TrackerState tracker          (object_tracker.cpp)
  kalman,         \* static KalmanState kalman            (kalman_filter.cpp)
  historyBuffer,  \* historyBuffer[0 .. historyCount-1]   (target_discriminator.cpp)
  lastScores,     \* lastScores[0 .. lastScoreCount-1]    (target_discriminator.cpp)
  op,             \* name of the last API function called
  arg,            \* its arguments
  ret,            \* its return value (0 for a void function)
  out,            \* what it stored through its output pointers
  steps,          \* number of filter- or history-advancing calls made so far
  pid,            \* static PIDController pidX (0), pidY (1) (guidance_controller.cpp)
  guidance,       \* static GuidanceState guidance          (guidance_controller.cpp)
  fusion,         \* static SensorFusionState fusion        (guidance_controller.cpp)
  telem,          \* static TelemetryData telem             (telemetry.cpp)
  frameCount,     \* static uint64_t frameCount             (telemetry.cpp)
  iirFilters,     \* static IIRFilter iirFilters[16]        (filters.cpp)
  vecFilters,     \* static VectorFilter vecFilters[8]      (filters.cpp)
  compFilters,    \* static ComplementaryFilter compFilters[8] (filters.cpp)
  maFilters,      \* static MovingAverage maFilters[8]      (filters.cpp)
  cmdQueue,       \* static volatile ServoCommand cmdQueue[8]     (Core/Src/main.c)
  cmdQueueHead,   \* static volatile uint8_t cmdQueueHead         (Core/Src/main.c)
  cmdQueueTail,   \* static volatile uint8_t cmdQueueTail         (Core/Src/main.c)
  rxRingBuffer,   \* static uint8_t rxRingBuffer[128]             (Core/Src/main.c)
  rxRingHead,     \* static uint16_t rxRingHead                   (Core/Src/main.c)
  rxRingTail,     \* static uint16_t rxRingTail                   (Core/Src/main.c)
  feedbackBuffer, \* uint8_t feedbackBuffer[8]                    (Core/Src/main.c)
  feedbackReady,  \* volatile uint8_t feedbackReady               (Core/Src/main.c)
  uartRxCount,    \* volatile uint32_t uartRxCount               (Core/Src/main.c)
  mainLoop,       \* where main's loop stands, and its locals sid, pos, byte0..6
  uartTx,         \* the packets handed to HAL_UART_Transmit, in order
  canTx,          \* the messages handed to HAL_CAN_AddTxMessage, in order
  canRxLog,       \* the commands the CAN-RX interrupt has taken, in order
  frameLog        \* the frames the UART-RX callback has extracted, in order

telemetryVars == <<telem, frameCount>>

filterVars == <<iirFilters, vecFilters, compFilters, maFilters>>

bridgeVars ==
  <<cmdQueue, cmdQueueHead, cmdQueueTail, rxRingBuffer, rxRingHead, rxRingTail,
    feedbackBuffer, feedbackReady, uartRxCount, mainLoop, uartTx, canTx, canRxLog,
    frameLog>>

vars ==
  <<tracker, kalman, historyBuffer, lastScores, op, arg, ret, out, steps, pid, guidance,
    fusion, telem, frameCount, iirFilters, vecFilters, compFilters, maFilters,
    bridgeVars>>

historyCount == Len(historyBuffer)

lastScoreCount == Len(lastScores)

\* Bound of the exploration: calls that advance the Kalman filter, the object
\* histories or the discriminator history are explored up to this many.
MaxSteps == 2

\* Bound of the exploration of the discriminator: batches are evaluated up to
\* this many calls.
MaxBatches == 3

\* Bound of the exploration of discriminatorSelectBest: the longest score list.
MaxScores == 3

\* Inputs explored.
D1 == <<105, 101, 20, 20>>
D2 == <<900, 100, 40, 30>>

R0 == <<100, 100, 20, 20>>

\* a target to start on, and two with a negative coordinate
StartRects == {R0, <<-5, 100, 20, 20>>, <<100, -5, 10, 30>>}

Call(rects, count) == [rects |-> rects, count |-> count]

\* trackerUpdate calls of a frame loop: no detection, one near, one beyond the
\* gating radius, a far and a near one
UpdateCalls ==
  {Call(<<>>, 0), Call(<<D1>>, 1), Call(<<D2>>, 1), Call(<<D2, D1>>, 2)}

\* no detection, one near, and a negative detectedCount
FewUpdateCalls == {Call(<<>>, 0), Call(<<D1>>, 1), Call(<<D1>>, -1)}

\* kalmanInit arguments <<x, y, processNoise, measurementNoise>> used by a host
\* that drives the shared filter directly (jni_bridge.cpp)
HostInits == {<<FromInt(100), FromInt(100), F1, F1>>}

\* kalmanInit arguments of the filter on its own
KalmanXs == {FromInt(100), FRat(-7, 2)}

KalmanYs == {FromInt(100), FZero}

ProcessNoises == {F1, FromInt(300)}

\* 0: exact measurements, after which the innovation covariance is singular
MeasurementNoises == {FZero, F1, FromInt(10)}

\* kalmanUpdate measurements
Measurements == {<<FromInt(105), FromInt(101)>>, <<FromInt(900), FromInt(100)>>}

HD == <<1280, 720>>

\* five detections of one target, all in the grid cell and size band of D1
Ring ==
  <<<<100, 100, 20, 20>>, <<104, 108, 20, 20>>, <<110, 102, 20, 20>>,
    <<118, 119, 20, 20>>, <<101, 115, 20, 20>>>>

\* n detections in n grid cells of one row, none of them the cell of D1
Grid(n) == [i \in 1 .. n |-> <<20 * (i - 1), 200, 20, 20>>]

\* a frame with more targets than history entries: the first one seen twice,
\* then one in each of the next MAX_HISTORY_TARGETS - 1 cells
Crowd == <<Grid(1)[1]>> \o Grid(MAX_HISTORY_TARGETS)

\* areas 400, 250000, 125200 (the ends and the middle of the size range),
\* 399 and 300 (too small), 250500 (too large), 10000 and 200000
Sizes ==
  <<<<0, 0, 20, 20>>, <<0, 0, 500, 500>>, <<0, 0, 313, 400>>, <<0, 0, 19, 21>>,
    <<0, 0, 10, 30>>, <<0, 0, 501, 500>>, <<0, 0, 100, 100>>, <<0, 0, 400, 500>>>>

Batch(rects, lastX, lastY, size) ==
  [rects |-> rects, count |-> Len(rects), lastX |-> lastX, lastY |-> lastY, size |-> size]

\* discriminatorEvaluateMultiple calls: one target near the last position,
\* the five detections of one target, the sizes, and a target at the origin
\* scored before the size of the image is known (0 x 0)
BatchCalls ==
  {Batch(<<D1>>, 100, 100, HD), Batch(Ring, 100, 100, HD),
   Batch(Sizes, -1, -1, HD), Batch(<<<<0, 0, 20, 20>>>>, 0, 0, <<0, 0>>)}

\* the crowded frame, explored as the first frame of a history
CrowdCall == Batch(Crowd, -1, -1, HD)

\* scores and thresholds of discriminatorSelectBest
Scores == {Half, FRat(9, 10), FRat(95, 100)}

ScoreLists == UNION {[1 .. n -> Scores] : n \in 0 .. MaxScores}

\* guidanceInit arguments <<alpha, cmdMax>>: the defaults, and a slower filter
\* with a narrower command range
GuidanceInits == {<<FRat(6, 10), FromInt(25)>>, <<Half, FromInt(10)>>}

\* guidanceUpdate arguments <<errorX, errorY, dt>>: a frame at 30 fps, a
\* large error with dt = 0, and an error small enough to leave the commands
\* within their range
GuidanceErrors ==
  {<<FromInt(100), FromInt(-50), FRat(33, 1000)>>, <<FromInt(-400), FromInt(300), FZero>>,
   <<FromInt(2), FromInt(-1), FRat(33, 1000)>>}

\* pidInit arguments <<kp, ki, kd, outputMin, outputMax, alpha>>: the gains
\* of guidanceInit, an integrating controller without filter, and output
\* limits passed in the wrong order
PidInits ==
  {<<Half, FZero, FRat(1, 10), FromInt(-25), FromInt(25), FRat(6, 10)>>,
   <<F1, F1, FZero, FromInt(-10), FromInt(10), F1>>,
   <<Half, FZero, FRat(1, 10), FromInt(25), FromInt(-25), FRat(6, 10)>>}

\* pidUpdate arguments <<error, dt>>: a frame at 30 fps, dt = 0, and errors
\* that wind the integral up and down
PidErrors ==
  {<<FromInt(100), FRat(33, 1000)>>, <<FromInt(-400), FZero>>,
   <<FromInt(1000), F1>>, <<FromInt(-1000), F1>>}

\* number of GPS fixes delivered; their timestamps are 1, 2, ...
MaxFixes == 2

\* fusionInit arguments: the default coefficient, one half, and a low one
Alphas == {ToFloat(FRat(98, 100)), ToFloat(Half), ToFloat(FRat(3, 10))}

\* fixes <<lat, lon, alt>> in degrees and metres
GpsFixes == {<<FromInt(60), FromInt(10), FromInt(100)>>,
             <<FromInt(-33), FromInt(151), FRat(5, 2)>>}

\* IMU samples <<accelN, accelE, accelD, dt>>
ImuSamples ==
  {<<ToFloat(FromInt(2)), ToFloat(FromInt(-1)), ToFloat(Half), ToFloat(FRat(1, 10))>>,
   <<ToFloat(FromInt(-3)), ToFloat(FromInt(4)), FZero, ToFloat(FRat(1, 50))>>}

\* servo ids 0 .. 255: the four servos, and the values around each change of
\* bit 6 and bit 7
ServoIds == {0, 1, 2, 3, 4, 63, 64, 126, 127, 128, 129, 191, 192, 200, 254, 255}

\* positions: the ends and the centre of the range, the 7-bit borders, and
\* values on both sides of the range up to the ends of int
Positions ==
  {0, 1, 127, 128, 8191, 16383, 16384, 16511, 32768, -1, -128, 65536 * 32767, -(65536 * 32767)}

\* number of telemetry frames built
MaxFrames == 2

\* telemetryBuildFrame buffer lengths around the frame size
MaxLens == {-1, 0, 72, 73, 74, 256}

\* telemetrySetTracking arguments: a box, and one that leaves the 16-bit range
TrackingBoxes == {<<320, -5, 64, 48>>, <<-40000, 70000, 65536 + 7, -1>>}

\* IIR slot ids: the last of 0 .. 15 and the first id on either side
IirIds == {15, 16, -1}

\* slot ids of the vector, complementary and moving-average filters: the
\* last of 0 .. 7 and the first id on either side
SlotIds == {7, 8, -1}

\* filter coefficient
FilterAlphas == {FRat(3, 10)}

\* filter samples
Samples == {FromInt(3)}

\* vector samples
VecSamples == {<<F1, FromInt(-2), FromInt(3)>>}

\* complementary filter samples <<highFreq, lowFreq>>
CompSamples == {<<FromInt(4), FromInt(2)>>}

\* moving-average window sizes: two samples, more than MA_MAX_SIZE, and none
MaSizes == {2, 100, 0}

\* detections at equal distances from the point (100, 100): T1 as far as D1,
\* T2 as far as D2
T1 == <<95, 99, 22, 22>>
T2 == <<100, 900, 30, 40>>

\* a detection at the point (100, 100) itself
P0 == <<100, 100, 24, 24>>

\* detection lists with equidistant nearest detections, near ones and far ones
\* in either order, a far one ahead of two near ones, and one with a detection
\* on the predicted point of the first update
MatchCalls ==
  {Call(<<T1, D1>>, 2), Call(<<D2, T2>>, 2), Call(<<T2, D2>>, 2),
   Call(<<D2, T1, D1>>, 3), Call(<<T1, P0>>, 2)}

\* image sizes whose gating radius is 640 (D2 and T2 beyond it) and 1000 (D2
\* and T2 within it)
MatchSizes == {<<1280, 720>>, <<2000, 720>>}

\* trackerUpdate calls with no detection, detections beyond the gating radius,
\* and a negative detectedCount
ModeCalls ==
  {Call(<<>>, 0), Call(<<D2>>, 1), Call(<<D2, D1>>, 2), Call(<<D2>>, -1)}

\* feedback frames sync, id, hPos, lPos, checksum: position bytes at the ends
\* and the centre of the range, one with bit 7 set, and a checksum that is
\* right (d = 0) or wrong (d = 1)
FeedbackFrames ==
  {<<sync, id, hPos, lPos,
     BitXor(U8(BitXor(BitXor(BitXor(sync, id), hPos), lPos) % 128), d)>> :
     sync \in {136, 131}, id \in {1, 4}, hPos \in {0, 56, 63, 71, 127, 192},
     lPos \in {0, 23, 127}, d \in {0, 1}}

\* a bare frame, and a frame behind a header byte without bit 7 and ahead of
\* a trailing byte (the 7-byte form)
FeedbackData == FeedbackFrames \cup {<<0>> \o f \o <<0>> : f \in FeedbackFrames}

\* servoParseFeedback calls <<data, length>>: whole buffers, a buffer cut
\* short of a frame and one cut short of 5 bytes
FeedbackCalls ==
  {<<d, Len(d)>> : d \in FeedbackData}
    \cup {<<<<0, 136, 4, 63, 127, 112, 0>>, 5>>, <<<<136, 4, 63, 127>>, 4>>}

\* number of commands the CAN-RX interrupt takes: one more than the queue has
\* slots
MaxCommands == 9

\* SDO values of the successive commands: small ones on both sides of the
\* centre, and one whose product by 4 leaves int32_t
CommandValues == <<1, -2, 3, 1073741824, -5, 6, 7, -8, 9, 10, 11, 12>>

\* an SDO write of canValue
SdoData(canValue) == <<34, 3, 96, 0>> \o Int32Bytes(canValue)

CanMessage(StdId, DLC, data) == [StdId |-> StdId, DLC |-> DLC, data |-> data]

\* CAN messages that may arrive as the n-th command: an SDO write for servo
\* 1 + n % 4; and messages the handler ignores: an id beyond the four servos,
\* a short frame, and another SDO command
CanMessages(n) ==
  {CanMessage(1537 + (n % 4), 8, SdoData(CommandValues[n + 1])),
   CanMessage(1541, 8, SdoData(CommandValues[n + 1])),
   CanMessage(1537, 4, SdoData(CommandValues[n + 1])),
   CanMessage(1537, 8, <<64, 3, 96, 0, 0, 0, 0, 0>>)}

\* SDO values up to the ends of int32_t, around the ends of the range of
\* positions and around the values whose product by 4 leaves int32_t
CanValues ==
  {0, 1, -1, 2047, 2048, 2049, -2047, -2048, -2049, 100000,
   536868864, 536868865, 536870911, 536870912, -536870912, -536870913,
   -536872959, -536872960, 1073741824, 1073741825, 1073739776, -1073741824,
   1610612736, -1610612736, 2147483647, -2147483647 - 1}

\* number of UART-RX callbacks
MaxCallbacks == 3

\* feedback frames of servo 1 and servo 2
FrameA == <<129, 1, 10, 20, 0, 0, 0>>
FrameB == <<129, 2, 30, 40, 0, 0, 0>>

\* what a callback finds in dmaRxBuffer: one frame, two frames, and a frame
\* in two parts
RxChunks ==
  {FrameA, FrameB, FrameA \o FrameB, SubSeq(FrameA, 1, 4), SubSeq(FrameA, 5, 7)}

\* axis arguments: yaw, pitch, and two that name no axis
Axes == {0, 1, 2, -1}

NoArg == <<>>

Init ==
  /\ tracker = TrackerStatic
  /\ kalman = KalmanZero
  /\ historyBuffer = <<>>
  /\ lastScores = <<>>
  /\ op = "none"
  /\ arg = NoArg
  /\ ret = 0
  /\ out = NoOut
  /\ steps = 0
  /\ pid = [axis \in {0, 1} |-> PidZero]
  /\ guidance = GuidanceStatic
  /\ fusion = FusionStatic
  /\ telem = TelemetryZero
  /\ frameCount = 0
  /\ iirFilters = [id \in 0 .. 15 |-> IirZero]
  /\ vecFilters = [id \in 0 .. 7 |-> VecZero]
  /\ compFilters = [id \in 0 .. 7 |-> CompZero]
  /\ maFilters = [id \in 0 .. 7 |-> MaZero]
  /\ cmdQueue = [i \in 0 .. CMD_QUEUE_SIZE - 1 |-> [servoId |-> 0, position |-> 0]]
  /\ cmdQueueHead = 0
  /\ cmdQueueTail = 0
  /\ rxRingBuffer = [i \in 0 .. RX_BUFFER_SIZE - 1 |-> 0]
  /\ rxRingHead = 0
  /\ rxRingTail = 0
  /\ feedbackBuffer = [i \in 0 .. FEEDBACK_FRAME_LEN |-> 0]
  /\ feedbackReady = 0
  /\ uartRxCount = 0
  /\ mainLoop = MainAtTop
  /\ uartTx = <<>>
  /\ canTx = <<>>
  /\ canRxLog = <<>>
  /\ frameLog = <<>>

\* a call that returns nothing and writes through no pointer
Void(name, a) == op' = name /\ arg' = a /\ ret' = 0 /\ out' = NoOut

discriminatorInit ==
  /\ historyBuffer' = <<>>
  /\ lastScores' = <<>>
  /\ Void("discriminatorInit", NoArg)
  /\ UNCHANGED <<tracker, kalman, steps, pid, guidance, fusion, telemetryVars, filterVars, bridgeVars>>

discriminatorReset ==
  /\ historyBuffer' = <<>>
  /\ lastScores' = <<>>
  /\ Void("discriminatorReset", NoArg)
  /\ UNCHANGED <<tracker, kalman, steps, pid, guidance, fusion, telemetryVars, filterVars, bridgeVars>>

discriminatorEvaluate(r, lastX, lastY, size) ==
  /\ steps < MaxSteps
  /\ \E e \in {DiscriminatorEvaluate(historyBuffer, lastScores, r[1], r[2], r[3], r[4],
                                     lastX, lastY, size[1], size[2])} :
        /\ historyBuffer' = e.hb
        /\ lastScores' = e.ls
        /\ out' = [NoOut EXCEPT !.written = TRUE, !.conf = e.score]
  /\ op' = "discriminatorEvaluate"
  /\ arg' = [rect |-> r, lastX |-> lastX, lastY |-> lastY, size |-> size]
  /\ ret' = 0
  /\ steps' = steps + 1
  /\ UNCHANGED <<tracker, kalman, pid, guidance, fusion, telemetryVars, filterVars, bridgeVars>>

discriminatorEvaluateMultiple(b) ==
  /\ steps < MaxBatches
  /\ \E e \in {DiscriminatorEvaluateMultiple(historyBuffer, lastScores, b.rects, b.count,
                                             b.lastX, b.lastY, b.size[1], b.size[2])} :
        /\ historyBuffer' = e.hb
        /\ lastScores' = e.ls
        /\ out' = [NoOut EXCEPT !.written = b.count > 0, !.scores = e.scores]
  /\ op' = "discriminatorEvaluateMultiple"
  /\ arg' = b
  /\ ret' = 0
  /\ steps' = steps + 1
  /\ UNCHANGED <<tracker, kalman, pid, guidance, fusion, telemetryVars, filterVars, bridgeVars>>

discriminatorSelectBest(scores, count, minScore) ==
  /\ op' = "discriminatorSelectBest"
  /\ arg' = [scores |-> scores, count |-> count, minScore |-> minScore]
  /\ ret' = DiscriminatorSelectBest(scores, count, minScore)
  /\ out' = NoOut
  /\ UNCHANGED <<tracker, kalman, historyBuffer, lastScores, steps, pid, guidance, fusion, telemetryVars, filterVars, bridgeVars>>

\* if (index >= 0 && index < lastScoreCount) *outScore = lastScores[index]
discriminatorGetScore(index) ==
  /\ op' = "discriminatorGetScore"
  /\ arg' = index
  /\ ret' = 0
  /\ out' = IF index >= 0 /\ index < lastScoreCount
            THEN [NoOut EXCEPT !.written = TRUE, !.score = lastScores[index + 1]]
            ELSE NoOut
  /\ UNCHANGED <<tracker, kalman, historyBuffer, lastScores, steps, pid, guidance, fusion, telemetryVars, filterVars, bridgeVars>>

kalmanInit(x, y, processNoise, measurementNoise) ==
  /\ kalman' = KalmanInit(x, y, processNoise, measurementNoise)
  /\ Void("kalmanInit", <<x, y, processNoise, measurementNoise>>)
  /\ UNCHANGED <<tracker, historyBuffer, lastScores, steps, pid, guidance, fusion, telemetryVars, filterVars, bridgeVars>>

kalmanPredict ==
  /\ steps < MaxSteps
  /\ \E k1 \in {KalmanPredict(kalman)} :
        /\ kalman' = k1
        /\ out' = [NoOut EXCEPT !.written = TRUE,
                                !.fx = KalmanPredictOut(kalman, k1)[1],
                                !.fy = KalmanPredictOut(kalman, k1)[2]]
  /\ op' = "kalmanPredict"
  /\ arg' = NoArg
  /\ ret' = 0
  /\ steps' = steps + 1
  /\ UNCHANGED <<tracker, historyBuffer, lastScores, pid, guidance, fusion, telemetryVars, filterVars, bridgeVars>>

kalmanUpdate(measuredX, measuredY) ==
  /\ steps < MaxSteps
  /\ kalman' = KalmanUpdate(kalman, measuredX, measuredY)
  /\ Void("kalmanUpdate", <<measuredX, measuredY>>)
  /\ steps' = steps + 1
  /\ UNCHANGED <<tracker, historyBuffer, lastScores, pid, guidance, fusion, telemetryVars, filterVars, bridgeVars>>

kalmanReset ==
  /\ kalman' = KalmanReset(kalman)
  /\ Void("kalmanReset", NoArg)
  /\ UNCHANGED <<tracker, historyBuffer, lastScores, steps, pid, guidance, fusion, telemetryVars, filterVars, bridgeVars>>

trackerInit ==
  /\ tracker' = TrackerInit
  /\ historyBuffer' = <<>>
  /\ lastScores' = <<>>
  /\ Void("trackerInit", NoArg)
  /\ UNCHANGED <<kalman, steps, pid, guidance, fusion, telemetryVars, filterVars, bridgeVars>>

trackerStartTracking(x, y, w, h) ==
  /\ tracker' = TrackerStartTracking(tracker, x, y, w, h)
  /\ kalman' = KalmanInit(FromInt(x), FromInt(y), FromInt(300), F1)
  /\ Void("trackerStartTracking", <<x, y, w, h>>)
  /\ UNCHANGED <<historyBuffer, lastScores, steps, pid, guidance, fusion, telemetryVars, filterVars, bridgeVars>>

trackerSetImageSize(width, height) ==
  /\ tracker' = [tracker EXCEPT !.imageWidth = width, !.imageHeight = height]
  /\ Void("trackerSetImageSize", <<width, height>>)
  /\ UNCHANGED <<kalman, historyBuffer, lastScores, steps, pid, guidance, fusion, telemetryVars, filterVars, bridgeVars>>

trackerProcessDetections(rects, count) ==
  /\ steps < MaxSteps
  /\ tracker' = TrackerProcessDetections(tracker, rects, count)
  /\ Void("trackerProcessDetections", [rects |-> rects, count |-> count])
  /\ steps' = steps + 1
  /\ UNCHANGED <<kalman, historyBuffer, lastScores, pid, guidance, fusion, telemetryVars, filterVars, bridgeVars>>

trackerUpdate(detectedRects, detectedCount) ==
  /\ steps < MaxSteps
  /\ \E r \in {TrackerUpdate(tracker, kalman, detectedRects, detectedCount)} :
        /\ tracker' = r.t
        /\ kalman' = r.k
        /\ ret' = r.ret
        /\ out' = r.out
  /\ op' = "trackerUpdate"
  /\ arg' = [rects |-> detectedRects, count |-> detectedCount]
  /\ steps' = steps + 1
  /\ UNCHANGED <<historyBuffer, lastScores, pid, guidance, fusion, telemetryVars, filterVars, bridgeVars>>

trackerGetPosition ==
  /\ op' = "trackerGetPosition"
  /\ arg' = NoArg
  /\ ret' = 0
  /\ out' = [NoOut EXCEPT !.written = TRUE, !.x = tracker.lastX, !.y = tracker.lastY,
                          !.w = tracker.lastW, !.h = tracker.lastH]
  /\ UNCHANGED <<tracker, kalman, historyBuffer, lastScores, steps, pid, guidance, fusion, telemetryVars, filterVars, bridgeVars>>

trackerGetPrediction ==
  /\ op' = "trackerGetPrediction"
  /\ arg' = NoArg
  /\ ret' = 0
  /\ out' = [NoOut EXCEPT !.written = TRUE, !.x = tracker.predictedX,
                          !.y = tracker.predictedY]
  /\ UNCHANGED <<tracker, kalman, historyBuffer, lastScores, steps, pid, guidance, fusion, telemetryVars, filterVars, bridgeVars>>

trackerGetMode ==
  /\ op' = "trackerGetMode"
  /\ arg' = NoArg
  /\ ret' = tracker.mode
  /\ out' = NoOut
  /\ UNCHANGED <<tracker, kalman, historyBuffer, lastScores, steps, pid, guidance, fusion, telemetryVars, filterVars, bridgeVars>>

trackerGetConfidence ==
  /\ op' = "trackerGetConfidence"
  /\ arg' = NoArg
  /\ ret' = 0
  /\ out' = [NoOut EXCEPT !.written = TRUE, !.conf = TrackerGetConfidence(tracker, kalman)]
  /\ UNCHANGED <<tracker, kalman, historyBuffer, lastScores, steps, pid, guidance, fusion, telemetryVars, filterVars, bridgeVars>>

trackerIsTracking ==
  /\ op' = "trackerIsTracking"
  /\ arg' = NoArg
  /\ ret' = TrackerIsTracking(tracker)
  /\ out' = NoOut
  /\ UNCHANGED <<tracker, kalman, historyBuffer, lastScores, steps, pid, guidance, fusion, telemetryVars, filterVars, bridgeVars>>

trackerReset ==
  /\ tracker' = TrackerReset(tracker)
  /\ kalman' = KalmanReset(kalman)
  /\ historyBuffer' = <<>>
  /\ lastScores' = <<>>
  /\ Void("trackerReset", NoArg)
  /\ UNCHANGED <<steps, pid, guidance, fusion, telemetryVars, filterVars, bridgeVars>>

trackerStop ==
  /\ tracker' = TrackerStop(tracker)
  /\ Void("trackerStop", NoArg)
  /\ UNCHANGED <<kalman, historyBuffer, lastScores, steps, pid, guidance, fusion, telemetryVars, filterVars, bridgeVars>>

trackerEnablePrediction(enable) ==
  /\ tracker' = [tracker EXCEPT !.enablePrediction = enable]
  /\ Void("trackerEnablePrediction", <<enable>>)
  /\ UNCHANGED <<kalman, historyBuffer, lastScores, steps, pid, guidance, fusion, telemetryVars, filterVars, bridgeVars>>

\* the functions of object_tracker.h that change the tracker
pidInit(axis, a) ==
  /\ pid' = [pid EXCEPT ![Axis(axis)] = PidInit(@, a[1], a[2], a[3], a[4], a[5], a[6])]
  /\ Void("pidInit", <<axis, a>>)
  /\ UNCHANGED <<tracker, kalman, historyBuffer, lastScores, steps, guidance, fusion, telemetryVars, filterVars, bridgeVars>>

pidUpdate(axis, error, dt) ==
  /\ steps < MaxSteps
  /\ \E r \in {PidUpdate(pid[Axis(axis)], error, dt)} :
        /\ pid' = [pid EXCEPT ![Axis(axis)] = r.pid]
        /\ ret' = r.output
  /\ op' = "pidUpdate"
  /\ arg' = <<axis, error, dt>>
  /\ out' = NoOut
  /\ steps' = steps + 1
  /\ UNCHANGED <<tracker, kalman, historyBuffer, lastScores, guidance, fusion, telemetryVars, filterVars, bridgeVars>>

pidReset(axis) ==
  /\ pid' = [pid EXCEPT ![Axis(axis)] = PidReset(@)]
  /\ Void("pidReset", <<axis>>)
  /\ UNCHANGED <<tracker, kalman, historyBuffer, lastScores, steps, guidance, fusion, telemetryVars, filterVars, bridgeVars>>

\* the application's encoder; returns SERVO_FRAME_SIZE
servoFormatPositionCommand(servoId, position) ==
  /\ op' = "servoFormatPositionCommand"
  /\ arg' = <<servoId, position>>
  /\ ret' = SERVO_FRAME_SIZE
  /\ out' = [NoOut EXCEPT !.written = TRUE, !.vec = ServoFormatPositionCommand(servoId, position)]
  /\ UNCHANGED <<tracker, kalman, historyBuffer, lastScores, steps, pid, guidance, fusion, telemetryVars, filterVars, bridgeVars>>

\* the firmware's encoder
Servo_BuildPacket(servoId, position) ==
  /\ op' = "Servo_BuildPacket"
  /\ arg' = <<servoId, position>>
  /\ ret' = 0
  /\ out' = [NoOut EXCEPT !.written = TRUE, !.vec = ServoBuildPacket(servoId, position)]
  /\ UNCHANGED <<tracker, kalman, historyBuffer, lastScores, steps, pid, guidance, fusion, telemetryVars, filterVars, bridgeVars>>

servoParseFeedback(data, length) ==
  /\ op' = "servoParseFeedback"
  /\ arg' = <<data, length>>
  /\ \E r \in {ServoParseFeedback(data, length)} :
        /\ ret' = r.ret
        /\ out' = [NoOut EXCEPT !.written = TRUE, !.vec = <<r.fb>>]
  /\ UNCHANGED <<tracker, kalman, historyBuffer, lastScores, steps, pid, guidance, fusion, telemetryVars, filterVars, bridgeVars>>

\* what the handlers and main's loop leave alone besides the firmware's state
appVars ==
  <<tracker, kalman, historyBuffer, lastScores, steps, pid, guidance, fusion,
    telemetryVars, filterVars>>

feedbackVars ==
  <<rxRingBuffer, rxRingHead, rxRingTail, feedbackBuffer, feedbackReady, uartRxCount,
    canTx, frameLog>>

\* void Bridge_ConvertSDOtoSerial(uint8_t *canData, uint8_t servoId): the
\* packets handed to UART2 and UART3
Bridge_ConvertSDOtoSerial(canData, servoId) ==
  /\ op' = "Bridge_ConvertSDOtoSerial"
  /\ arg' = <<canData, servoId>>
  /\ ret' = 0
  /\ IF SdoSignature(canData)
     THEN \E position \in SdoPositions(CanValue(canData)) :
             out' = [NoOut EXCEPT !.written = TRUE,
                                  !.vec = <<ServoBuildPacket(servoId, position),
                                            ServoBuildPacket(servoId, position)>>]
     ELSE out' = NoOut
  /\ UNCHANGED <<appVars, bridgeVars>>

\* the command of an SDO write taken by the handler
Taken(msg, position, enqueued) ==
  [servoId |-> U8(msg.StdId - 1536), canValue |-> CanValue(msg.data),
   position |-> position, enqueued |-> enqueued]

\* void HAL_CAN_RxFifo0MsgPendingCallback(CAN_HandleTypeDef *hcan) on the
\* message msg read by HAL_CAN_GetRxMessage
HAL_CAN_RxFifo0MsgPendingCallback(msg) ==
  /\ Len(canRxLog) < MaxCommands
  /\ op' = "HAL_CAN_RxFifo0MsgPendingCallback"
  /\ arg' = msg
  /\ ret' = 0
  /\ out' = NoOut
  /\ IF msg.StdId >= 1537 /\ msg.StdId <= 1540 /\ msg.DLC = 8 /\ SdoSignature(msg.data)
     THEN \E position \in SdoPositions(CanValue(msg.data)) :
          \E r \in {Enqueue(cmdQueue, cmdQueueHead, cmdQueueTail,
                            [servoId |-> U8(msg.StdId - 1536), position |-> position])} :
             /\ cmdQueue' = r.queue
             /\ cmdQueueHead' = r.head
             /\ canRxLog' = Append(canRxLog, Taken(msg, position, r.head # cmdQueueHead))
     ELSE UNCHANGED <<cmdQueue, cmdQueueHead, canRxLog>>
  /\ UNCHANGED <<appVars, cmdQueueTail, mainLoop, uartTx, feedbackVars>>

\* a step of main's loop: op names main, arg the statement executed
MainStep(from) ==
  /\ mainLoop.pc = from
  /\ op' = "main"
  /\ arg' = from
  /\ ret' = 0
  /\ out' = NoOut
  /\ UNCHANGED appVars

\* if (cmdQueueTail != cmdQueueHead)
mainCheckQueue ==
  /\ MainStep("queue")
  /\ mainLoop' = [mainLoop EXCEPT !.pc = IF cmdQueueTail # cmdQueueHead
                                         THEN "tick" ELSE "feedback"]
  /\ UNCHANGED <<cmdQueue, cmdQueueHead, cmdQueueTail, uartTx, canRxLog, feedbackVars>>

\* now = HAL_GetTick(); if ((now - lastCmdTick) >= MIN_CMD_INTERVAL_MS)
\* lastCmdTick = now: elapsed tells whether 5 ms have passed
mainCheckTick(elapsed) ==
  /\ MainStep("tick")
  /\ mainLoop' = [mainLoop EXCEPT !.pc = IF elapsed THEN "sid" ELSE "feedback"]
  /\ UNCHANGED <<cmdQueue, cmdQueueHead, cmdQueueTail, uartTx, canRxLog, feedbackVars>>

\* uint8_t sid = cmdQueue[cmdQueueTail].servoId
mainReadServoId ==
  /\ MainStep("sid")
  /\ mainLoop' = [mainLoop EXCEPT !.pc = "pos", !.sid = cmdQueue[cmdQueueTail].servoId]
  /\ UNCHANGED <<cmdQueue, cmdQueueHead, cmdQueueTail, uartTx, canRxLog, feedbackVars>>

\* int32_t pos = cmdQueue[cmdQueueTail].position
mainReadPosition ==
  /\ MainStep("pos")
  /\ mainLoop' = [mainLoop EXCEPT !.pc = "tail", !.pos = cmdQueue[cmdQueueTail].position]
  /\ UNCHANGED <<cmdQueue, cmdQueueHead, cmdQueueTail, uartTx, canRxLog, feedbackVars>>

\* cmdQueueTail = (cmdQueueTail + 1) % CMD_QUEUE_SIZE
mainAdvanceTail ==
  /\ MainStep("tail")
  /\ cmdQueueTail' = (cmdQueueTail + 1) % CMD_QUEUE_SIZE
  /\ mainLoop' = [mainLoop EXCEPT !.pc = "send"]
  /\ UNCHANGED <<cmdQueue, cmdQueueHead, uartTx, canRxLog, feedbackVars>>

\* Servo_BuildPacket(sid, pos, packet); HAL_UART_Transmit(&huart2, packet, 5, 10)
mainTransmit ==
  /\ MainStep("send")
  /\ uartTx' = Append(uartTx, ServoBuildPacket(mainLoop.sid, mainLoop.pos))
  /\ mainLoop' = [mainLoop EXCEPT !.pc = "feedback"]
  /\ UNCHANGED <<cmdQueue, cmdQueueHead, cmdQueueTail, canRxLog, feedbackVars>>

\* if (feedbackReady): into Bridge_ProcessFeedback(feedbackBuffer), or on to
\* the next round of the loop
mainCheckFeedback ==
  /\ MainStep("feedback")
  /\ mainLoop' = [mainLoop EXCEPT !.pc = IF feedbackReady # 0 THEN "process" ELSE "queue",
                                  !.bytes = <<>>]
  /\ UNCHANGED <<cmdQueue, cmdQueueHead, cmdQueueTail, uartTx, canRxLog, feedbackVars>>

\* uint8_t byte0 = buffer[0]; ... uint8_t byte6 = buffer[6]: one read a step
processReadByte ==
  /\ Len(mainLoop.bytes) < FEEDBACK_FRAME_LEN
  /\ MainStep("process")
  /\ mainLoop' = [mainLoop EXCEPT !.bytes = Append(@, feedbackBuffer[Len(@)]),
                                  !.pc = IF Len(mainLoop.bytes) + 1 = FEEDBACK_FRAME_LEN
                                         THEN "debug" ELSE "process"]
  /\ UNCHANGED <<cmdQueue, cmdQueueHead, cmdQueueTail, uartTx, canRxLog, feedbackVars>>

\* TxDataDbg[i] = buffer[i]; TxDataDbg[7] = 0xAA; HAL_CAN_AddTxMessage: the
\* seven reads of the copy taken as one step
processSendDebug ==
  /\ MainStep("debug")
  /\ canTx' = Append(canTx, DebugMessage(feedbackBuffer))
  /\ mainLoop' = [mainLoop EXCEPT !.pc = "forward"]
  /\ UNCHANGED <<cmdQueue, cmdQueueHead, cmdQueueTail, uartTx, canRxLog, rxRingBuffer,
                 rxRingHead, rxRingTail, feedbackBuffer, feedbackReady, uartRxCount,
                 frameLog>>

\* the feedback message from byte1, byte2 and byte3
processSendFeedback ==
  /\ MainStep("forward")
  /\ canTx' = Append(canTx, FeedbackMessage(mainLoop.bytes[2], mainLoop.bytes[3],
                                            mainLoop.bytes[4]))
  /\ mainLoop' = [mainLoop EXCEPT !.pc = "clear"]
  /\ UNCHANGED <<cmdQueue, cmdQueueHead, cmdQueueTail, uartTx, canRxLog, rxRingBuffer,
                 rxRingHead, rxRingTail, feedbackBuffer, feedbackReady, uartRxCount,
                 frameLog>>

\* feedbackReady = 0, and on to the next round of the loop
mainClearReady ==
  /\ MainStep("clear")
  /\ feedbackReady' = 0
  /\ mainLoop' = [mainLoop EXCEPT !.pc = "queue"]
  /\ UNCHANGED <<cmdQueue, cmdQueueHead, cmdQueueTail, uartTx, canRxLog, rxRingBuffer,
                 rxRingHead, rxRingTail, feedbackBuffer, uartRxCount, canTx, frameLog>>

\* void HAL_UARTEx_RxEventCallback(UART_HandleTypeDef *huart, uint16_t Size)
\* for USART2, bytes being dmaRxBuffer[0 .. Size-1]
HAL_UARTEx_RxEventCallback(bytes) ==
  /\ uartRxCount < MaxCallbacks
  /\ op' = "HAL_UARTEx_RxEventCallback"
  /\ arg' = bytes
  /\ ret' = 0
  /\ out' = NoOut
  /\ uartRxCount' = uartRxCount + 1
  /\ \E w \in {RingWrite(rxRingBuffer, rxRingHead, bytes, 0)} :
     \E e \in {ExtractFrames(w.ring, w.head,
                             [tail |-> rxRingTail, buffer |-> feedbackBuffer,
                              ready |-> feedbackReady, log |-> frameLog])} :
        /\ rxRingBuffer' = w.ring
        /\ rxRingHead' = w.head
        /\ rxRingTail' = e.tail
        /\ feedbackBuffer' = e.buffer
        /\ feedbackReady' = e.ready
        /\ frameLog' = e.log
  /\ UNCHANGED <<appVars, cmdQueue, cmdQueueHead, cmdQueueTail, mainLoop, uartTx, canTx,
                 canRxLog>>

iirInit(id, alpha) ==
  /\ iirFilters' = IirInit(iirFilters, id, alpha)
  /\ Void("iirInit", <<id, alpha>>)
  /\ UNCHANGED <<tracker, kalman, historyBuffer, lastScores, steps, pid, guidance, fusion, telemetryVars, vecFilters, compFilters, maFilters, bridgeVars>>

iirUpdate(id, input) ==
  /\ steps < MaxSteps
  /\ \E r \in {IirUpdate(iirFilters, id, input)} : iirFilters' = r.slots /\ ret' = r.ret
  /\ op' = "iirUpdate" /\ arg' = <<id, input>> /\ out' = NoOut
  /\ steps' = steps + 1
  /\ UNCHANGED <<tracker, kalman, historyBuffer, lastScores, pid, guidance, fusion, telemetryVars, vecFilters, compFilters, maFilters, bridgeVars>>

iirGet(id) ==
  /\ op' = "iirGet" /\ arg' = <<id>> /\ out' = NoOut
  /\ ret' = IirGet(iirFilters, id)
  /\ UNCHANGED <<tracker, kalman, historyBuffer, lastScores, steps, pid, guidance, fusion, telemetryVars, filterVars, bridgeVars>>

iirReset(id) ==
  /\ iirFilters' = IirReset(iirFilters, id)
  /\ Void("iirReset", <<id>>)
  /\ UNCHANGED <<tracker, kalman, historyBuffer, lastScores, steps, pid, guidance, fusion, telemetryVars, vecFilters, compFilters, maFilters, bridgeVars>>

vecFilterInit(id, alpha) ==
  /\ vecFilters' = VecFilterInit(vecFilters, id, alpha)
  /\ Void("vecFilterInit", <<id, alpha>>)
  /\ UNCHANGED <<tracker, kalman, historyBuffer, lastScores, steps, pid, guidance, fusion, telemetryVars, iirFilters, compFilters, maFilters, bridgeVars>>

vecFilterUpdate(id, in) ==
  /\ steps < MaxSteps
  /\ \E r \in {VecFilterUpdate(vecFilters, id, in)} :
        /\ vecFilters' = r.slots
        /\ out' = [NoOut EXCEPT !.written = TRUE, !.vec = r.ret]
  /\ op' = "vecFilterUpdate" /\ arg' = <<id, in>> /\ ret' = 0
  /\ steps' = steps + 1
  /\ UNCHANGED <<tracker, kalman, historyBuffer, lastScores, pid, guidance, fusion, telemetryVars, iirFilters, compFilters, maFilters, bridgeVars>>

compFilterInit(id, alpha) ==
  /\ compFilters' = CompFilterInit(compFilters, id, alpha)
  /\ Void("compFilterInit", <<id, alpha>>)
  /\ UNCHANGED <<tracker, kalman, historyBuffer, lastScores, steps, pid, guidance, fusion, telemetryVars, iirFilters, vecFilters, maFilters, bridgeVars>>

compFilterUpdate(id, highFreq, lowFreq) ==
  /\ steps < MaxSteps
  /\ \E r \in {CompFilterUpdate(compFilters, id, highFreq, lowFreq)} :
        compFilters' = r.slots /\ ret' = r.ret
  /\ op' = "compFilterUpdate" /\ arg' = <<id, highFreq, lowFreq>> /\ out' = NoOut
  /\ steps' = steps + 1
  /\ UNCHANGED <<tracker, kalman, historyBuffer, lastScores, pid, guidance, fusion, telemetryVars, iirFilters, vecFilters, maFilters, bridgeVars>>

maInit(id, size) ==
  /\ maFilters' = MaInit(maFilters, id, size)
  /\ Void("maInit", <<id, size>>)
  /\ UNCHANGED <<tracker, kalman, historyBuffer, lastScores, steps, pid, guidance, fusion, telemetryVars, iirFilters, vecFilters, compFilters, bridgeVars>>

maUpdate(id, input) ==
  /\ steps < MaxSteps
  /\ \E r \in {MaUpdate(maFilters, id, input)} : maFilters' = r.slots /\ ret' = r.ret
  /\ op' = "maUpdate" /\ arg' = <<id, input>> /\ out' = NoOut
  /\ steps' = steps + 1
  /\ UNCHANGED <<tracker, kalman, historyBuffer, lastScores, pid, guidance, fusion, telemetryVars, iirFilters, vecFilters, compFilters, bridgeVars>>

telemetryInit ==
  /\ telem' = TelemetryZero
  /\ frameCount' = 0
  /\ Void("telemetryInit", NoArg)
  /\ UNCHANGED <<tracker, kalman, historyBuffer, lastScores, steps, pid, guidance, fusion, filterVars, bridgeVars>>

telemetrySetTimestamp(ts) ==
  /\ telem' = [telem EXCEPT !.timestamp = ts]
  /\ Void("telemetrySetTimestamp", <<ts>>)
  /\ UNCHANGED <<tracker, kalman, historyBuffer, lastScores, steps, pid, guidance, fusion, frameCount, filterVars, bridgeVars>>

telemetrySetOrientation(roll, pitch, yaw) ==
  /\ telem' = [telem EXCEPT !.roll = Scaled16(roll, 10), !.pitch = Scaled16(pitch, 10),
                            !.yaw = Scaled16(yaw, 10)]
  /\ Void("telemetrySetOrientation", <<roll, pitch, yaw>>)
  /\ UNCHANGED <<tracker, kalman, historyBuffer, lastScores, steps, pid, guidance, fusion, frameCount, filterVars, bridgeVars>>

telemetrySetPressure(pressureHpa, altitudeM) ==
  /\ telem' = [telem EXCEPT !.pressure = U16(Trunc(pressureHpa)),
                            !.baroAltitude = Scaled16(altitudeM, 10)]
  /\ Void("telemetrySetPressure", <<pressureHpa, altitudeM>>)
  /\ UNCHANGED <<tracker, kalman, historyBuffer, lastScores, steps, pid, guidance, fusion, frameCount, filterVars, bridgeVars>>

telemetrySetGPS(lat, lon, alt, speed, heading, satellites, fix, hdop) ==
  /\ telem' = [telem EXCEPT !.latitude = Trunc(FMul(lat, FromInt(10000000))),
                            !.longitude = Trunc(FMul(lon, FromInt(10000000))),
                            !.gpsAltitude = I16(Trunc(alt)),
                            !.speed = U16(Trunc(FMul(speed, FromInt(100)))),
                            !.heading = U16(Trunc(FMul(heading, FromInt(10)))),
                            !.satellites = U8(satellites),
                            !.gpsFix = U8(fix),
                            !.hdop = U16(Trunc(FMul(hdop, FromInt(100))))]
  /\ Void("telemetrySetGPS", <<lat, lon, alt, speed, heading, satellites, fix, hdop>>)
  /\ UNCHANGED <<tracker, kalman, historyBuffer, lastScores, steps, pid, guidance, fusion, frameCount, filterVars, bridgeVars>>

telemetrySetServoCmd(s1, s2, s3, s4) ==
  /\ telem' = [telem EXCEPT !.s1Cmd = Scaled16(s1, 10), !.s2Cmd = Scaled16(s2, 10),
                            !.s3Cmd = Scaled16(s3, 10), !.s4Cmd = Scaled16(s4, 10)]
  /\ Void("telemetrySetServoCmd", <<s1, s2, s3, s4>>)
  /\ UNCHANGED <<tracker, kalman, historyBuffer, lastScores, steps, pid, guidance, fusion, frameCount, filterVars, bridgeVars>>

telemetrySetTracking(x, y, w, h) ==
  /\ telem' = [telem EXCEPT !.targetX = I16(x), !.targetY = I16(y),
                            !.targetW = U16(w), !.targetH = U16(h)]
  /\ Void("telemetrySetTracking", <<x, y, w, h>>)
  /\ UNCHANGED <<tracker, kalman, historyBuffer, lastScores, steps, pid, guidance, fusion, frameCount, filterVars, bridgeVars>>

telemetrySetBattery(percent, charging, voltageMv) ==
  /\ telem' = [telem EXCEPT !.batteryPercent = U8(percent), !.isCharging = U8(charging),
                            !.batteryVoltage = U16(voltageMv)]
  /\ Void("telemetrySetBattery", <<percent, charging, voltageMv>>)
  /\ UNCHANGED <<tracker, kalman, historyBuffer, lastScores, steps, pid, guidance, fusion, frameCount, filterVars, bridgeVars>>

\* if (maxLen < TELEMETRY_FRAME_SIZE) return -1; ... frameCount++; return idx
telemetryBuildFrame(maxLen) ==
  /\ op' = "telemetryBuildFrame"
  /\ arg' = <<maxLen>>
  /\ IF maxLen < TELEMETRY_FRAME_SIZE
       THEN /\ ret' = -1
            /\ out' = NoOut
            /\ frameCount' = frameCount
       ELSE /\ frameCount < MaxFrames
            /\ \E frame \in {TelemetryFrame(telem)} :
                  /\ ret' = Len(frame)
                  /\ out' = [NoOut EXCEPT !.written = TRUE, !.vec = frame]
            /\ frameCount' = frameCount + 1
  /\ UNCHANGED <<tracker, kalman, historyBuffer, lastScores, steps, pid, guidance, fusion, telem, filterVars, bridgeVars>>

fusionInit(alpha) ==
  /\ fusion' = FusionInit(fusion, alpha)
  /\ Void("fusionInit", <<alpha>>)
  /\ UNCHANGED <<tracker, kalman, historyBuffer, lastScores, steps, pid, guidance, telemetryVars, filterVars, bridgeVars>>

fusionUpdateGps(lat, lon, alt, timestamp) ==
  /\ timestamp <= MaxFixes
  /\ fusion' = FusionUpdateGps(fusion, lat, lon, alt, timestamp)
  /\ Void("fusionUpdateGps", <<lat, lon, alt, timestamp>>)
  /\ UNCHANGED <<tracker, kalman, historyBuffer, lastScores, steps, pid, guidance, telemetryVars, filterVars, bridgeVars>>

fusionIntegrateImu(accelN, accelE, accelD, dt) ==
  /\ steps < MaxSteps
  /\ \E r \in {FusionIntegrateImu(fusion, accelN, accelE, accelD, dt)} : fusion' = r
  /\ Void("fusionIntegrateImu", <<accelN, accelE, accelD, dt>>)
  /\ steps' = steps + 1
  /\ UNCHANGED <<tracker, kalman, historyBuffer, lastScores, pid, guidance, telemetryVars, filterVars, bridgeVars>>

\* *lat = fusion.fusedLat; *lon = fusion.fusedLon; *alt = fusion.fusedAlt
fusionGetPosition ==
  /\ op' = "fusionGetPosition"
  /\ arg' = NoArg
  /\ ret' = 0
  /\ out' = [NoOut EXCEPT !.written = TRUE,
                          !.vec = <<fusion.fusedLat, fusion.fusedLon, fusion.fusedAlt>>]
  /\ UNCHANGED <<tracker, kalman, historyBuffer, lastScores, steps, pid, guidance, fusion, telemetryVars, filterVars, bridgeVars>>

\* *velN = fusion.velN; *velE = fusion.velE; *velD = fusion.velD
fusionGetVelocity ==
  /\ op' = "fusionGetVelocity"
  /\ arg' = NoArg
  /\ ret' = 0
  /\ out' = [NoOut EXCEPT !.written = TRUE,
                          !.vec = <<fusion.velN, fusion.velE, fusion.velD>>]
  /\ UNCHANGED <<tracker, kalman, historyBuffer, lastScores, steps, pid, guidance, fusion, telemetryVars, filterVars, bridgeVars>>

\* return fusion.hasGpsFix (1 for true)
fusionHasFix ==
  /\ op' = "fusionHasFix"
  /\ arg' = NoArg
  /\ ret' = (IF fusion.hasGpsFix THEN 1 ELSE 0)
  /\ out' = NoOut
  /\ UNCHANGED <<tracker, kalman, historyBuffer, lastScores, steps, pid, guidance, fusion, telemetryVars, filterVars, bridgeVars>>

guidanceInit(alpha, cmdMax) ==
  /\ \E r \in {GuidanceInit(guidance, pid, alpha, cmdMax)} :
        guidance' = r.guidance /\ pid' = r.pid
  /\ Void("guidanceInit", <<alpha, cmdMax>>)
  /\ UNCHANGED <<tracker, kalman, historyBuffer, lastScores, steps, fusion, telemetryVars, filterVars, bridgeVars>>

guidanceStart ==
  /\ \E r \in {GuidanceStart(guidance, pid)} :
        guidance' = r.guidance /\ pid' = r.pid
  /\ Void("guidanceStart", NoArg)
  /\ UNCHANGED <<tracker, kalman, historyBuffer, lastScores, steps, fusion, telemetryVars, filterVars, bridgeVars>>

guidanceStop ==
  /\ \E r \in {GuidanceStop(guidance, pid)} :
        guidance' = r.guidance /\ pid' = r.pid
  /\ Void("guidanceStop", NoArg)
  /\ UNCHANGED <<tracker, kalman, historyBuffer, lastScores, steps, fusion, telemetryVars, filterVars, bridgeVars>>

guidanceUpdate(errorX, errorY, dt) ==
  /\ steps < MaxSteps
  /\ \E r \in {GuidanceUpdate(guidance, pid, errorX, errorY, dt)} :
        guidance' = r.guidance /\ pid' = r.pid
  /\ Void("guidanceUpdate", <<errorX, errorY, dt>>)
  /\ steps' = steps + 1
  /\ UNCHANGED <<tracker, kalman, historyBuffer, lastScores, fusion, telemetryVars, filterVars, bridgeVars>>

\* *pitch = guidance.pitchCmd; *yaw = guidance.yawCmd
guidanceGetCommands ==
  /\ op' = "guidanceGetCommands"
  /\ arg' = NoArg
  /\ ret' = 0
  /\ out' = [NoOut EXCEPT !.written = TRUE, !.fx = guidance.pitchCmd, !.fy = guidance.yawCmd]
  /\ UNCHANGED <<tracker, kalman, historyBuffer, lastScores, steps, pid, guidance, fusion, telemetryVars, filterVars, bridgeVars>>

\* angles[i] = guidance.servoAngles[i]
guidanceGetServoAngles ==
  /\ op' = "guidanceGetServoAngles"
  /\ arg' = NoArg
  /\ ret' = 0
  /\ out' = [NoOut EXCEPT !.written = TRUE,
                          !.angles = [i \in 1 .. 4 |-> guidance.servoAngles[i - 1]]]
  /\ UNCHANGED <<tracker, kalman, historyBuffer, lastScores, steps, pid, guidance, fusion, telemetryVars, filterVars, bridgeVars>>

TrackerCalls(starts, sizes, updates) ==
  \/ trackerInit
  \/ \E r \in starts : trackerStartTracking(r[1], r[2], r[3], r[4])
  \/ \E s \in sizes : trackerSetImageSize(s[1], s[2])
  \/ \E c \in updates : trackerUpdate(c.rects, c.count)
  \/ trackerReset
  \/ trackerStop
  \/ \E e \in {0, 1} : trackerEnablePrediction(e)

TrackerGetters ==
  \/ trackerGetPosition
  \/ trackerGetPrediction
  \/ trackerGetMode
  \/ trackerGetConfidence
  \/ trackerIsTracking

\* every function of object_tracker.h, and the discriminator it resets; the
\* filter is driven by the tracker only
Next ==
  \/ TrackerCalls({R0}, {<<640, 480>>}, FewUpdateCalls)
  \/ trackerProcessDetections(<<D1>>, 1)
  \/ TrackerGetters
  \/ discriminatorInit
  \/ discriminatorEvaluate(D1, 100, 100, <<1280, 720>>)
  \/ discriminatorReset

Spec == Init /\ [][Next]_vars

\* the frame loop: the tracker on every kind of detection list, with a host
\* that may re-initialise or reset the shared filter (jni_bridge.cpp)
UpdateNext ==
  \/ TrackerCalls(StartRects, {<<1280, 720>>}, UpdateCalls)
  \/ \E a \in HostInits : kalmanInit(a[1], a[2], a[3], a[4])
  \/ kalmanReset

UpdateSpec == Init /\ [][UpdateNext]_vars

\* the Kalman filter on its own
KalmanNext ==
  \/ \E x \in KalmanXs, y \in KalmanYs, q \in ProcessNoises, r \in MeasurementNoises :
        kalmanInit(x, y, q, r)
  \/ kalmanPredict
  \/ \E z \in Measurements : kalmanUpdate(z[1], z[2])
  \/ kalmanReset

KalmanSpec == Init /\ [][KalmanNext]_vars

\* The discriminator on its own: single evaluations and batches.
DiscriminatorNext ==
  \/ discriminatorInit
  \/ discriminatorEvaluate(D1, 100, 100, HD)
  \/ \E b \in BatchCalls : discriminatorEvaluateMultiple(b)
  \/ historyCount = 0 /\ discriminatorEvaluateMultiple(CrowdCall)
  \/ \E index \in {-1, 0, 1} : discriminatorGetScore(index)
  \/ discriminatorReset

DiscriminatorSpec == Init /\ [][DiscriminatorNext]_vars

\* The guidance controller on its own.
GuidanceNext ==
  \/ \E a \in GuidanceInits : guidanceInit(a[1], a[2])
  \/ guidanceStart
  \/ \E e \in GuidanceErrors : guidanceUpdate(e[1], e[2], e[3])
  \/ guidanceStop
  \/ guidanceGetCommands
  \/ guidanceGetServoAngles

GuidanceSpec == Init /\ [][GuidanceNext]_vars

\* The two PID controllers driven directly.
PidNext ==
  \/ \E axis \in Axes, a \in PidInits : pidInit(axis, a)
  \/ \E axis \in Axes, e \in PidErrors : pidUpdate(axis, e[1], e[2])
  \/ \E axis \in Axes : pidReset(axis)

PidSpec == Init /\ [][PidNext]_vars

\* The sensor fusion on its own; the fixes arrive with increasing timestamps.
FusionNext ==
  \/ \E alpha \in Alphas : fusionInit(alpha)
  \/ \E g \in GpsFixes : fusionUpdateGps(g[1], g[2], g[3], fusion.gpsTimestamp + 1)
  \/ \E i \in ImuSamples : fusionIntegrateImu(i[1], i[2], i[3], i[4])
  \/ fusionGetPosition
  \/ fusionGetVelocity
  \/ fusionHasFix

FusionSpec == Init /\ [][FusionNext]_vars

\* The two encoders of the servo position frame.
ServoNext ==
  \/ \E servoId \in ServoIds, position \in Positions :
        servoFormatPositionCommand(servoId, position)
  \/ \E servoId \in ServoIds, position \in Positions :
        Servo_BuildPacket(servoId, position)

ServoSpec == Init /\ [][ServoNext]_vars

\* The feedback parser of the application.
ParseNext == \E c \in FeedbackCalls : servoParseFeedback(c[1], c[2])

ParseSpec == Init /\ [][ParseNext]_vars

\* The conversion of an SDO value to a servo packet.
ConvertNext ==
  \E v \in CanValues, servoId \in 1 .. 4 : Bridge_ConvertSDOtoSerial(SdoData(v), servoId)

ConvertSpec == Init /\ [][ConvertNext]_vars

\* The command queue between the CAN-RX interrupt and main's loop; no serial
\* feedback arrives.
QueueNext ==
  \/ \E msg \in CanMessages(Len(canRxLog)) : HAL_CAN_RxFifo0MsgPendingCallback(msg)
  \/ mainCheckQueue
  \/ \E elapsed \in BOOLEAN : mainCheckTick(elapsed)
  \/ mainReadServoId
  \/ mainReadPosition
  \/ mainAdvanceTail
  \/ mainTransmit
  \/ mainCheckFeedback

QueueSpec == Init /\ [][QueueNext]_vars

\* The serial feedback between the UART-RX callback and main's loop; no CAN
\* command arrives.
FeedbackNext ==
  \/ \E bytes \in RxChunks : HAL_UARTEx_RxEventCallback(bytes)
  \/ mainCheckQueue
  \/ mainCheckFeedback
  \/ processReadByte
  \/ processSendDebug
  \/ processSendFeedback
  \/ mainClearReady

FeedbackSpec == Init /\ [][FeedbackNext]_vars

\* The telemetry record, its setters and the frame builder.
TelemetryNext ==
  \/ telemetryInit
  \/ telemetrySetTimestamp(65536 * 4660 + 22136)
  \/ telemetrySetOrientation(FromInt(-12), FRat(7, 2), FromInt(359))
  \/ telemetrySetPressure(FromInt(1013), FRat(-5, 2))
  \/ telemetrySetGPS(FromInt(-33), FromInt(151), FromInt(58), FRat(25, 2),
                     FromInt(270), 9, 2, FRat(3, 2))
  \/ telemetrySetServoCmd(FromInt(25), FromInt(-25), FRat(1, 2), FZero)
  \/ \E b \in TrackingBoxes : telemetrySetTracking(b[1], b[2], b[3], b[4])
  \/ telemetrySetBattery(87, 1, 3700)
  \/ \E maxLen \in MaxLens : telemetryBuildFrame(maxLen)

TelemetrySpec == Init /\ [][TelemetryNext]_vars

\* the filter arrays of the other families are as at program start
OthersAtRest(k) ==
  \A j \in (1 .. 4) \ {k} :
     filterVars[j] = <<[id \in 0 .. 15 |-> IirZero], [id \in 0 .. 7 |-> VecZero],
                       [id \in 0 .. 7 |-> CompZero], [id \in 0 .. 7 |-> MaZero]>>[j]

\* a call on family k with this id is made: ids out of range at any time,
\* ids in range while the run uses no other family
Called(k, id, n) == id < 0 \/ id >= n \/ OthersAtRest(k)

\* The filter slots and the PID controllers, called with slot ids and axes
\* inside and outside their ranges.
FilterNext ==
  \/ \E id \in IirIds, alpha \in FilterAlphas : Called(1, id, 16) /\ iirInit(id, alpha)
  \/ \E id \in IirIds, input \in Samples : Called(1, id, 16) /\ iirUpdate(id, input)
  \/ \E id \in IirIds : Called(1, id, 16) /\ iirGet(id)
  \/ \E id \in IirIds : Called(1, id, 16) /\ iirReset(id)
  \/ \E id \in SlotIds, alpha \in FilterAlphas : Called(2, id, 8) /\ vecFilterInit(id, alpha)
  \/ \E id \in SlotIds, in \in VecSamples : Called(2, id, 8) /\ vecFilterUpdate(id, in)
  \/ \E id \in SlotIds, alpha \in FilterAlphas : Called(3, id, 8) /\ compFilterInit(id, alpha)
  \/ \E id \in SlotIds, s \in CompSamples : Called(3, id, 8) /\ compFilterUpdate(id, s[1], s[2])
  \/ \E id \in SlotIds, size \in MaSizes : Called(4, id, 8) /\ maInit(id, size)
  \/ \E id \in SlotIds, input \in Samples : Called(4, id, 8) /\ maUpdate(id, input)
  \/ \E axis \in Axes, a \in {x \in PidInits : x[2] = F1} : pidInit(axis, a)
  \/ \E axis \in Axes, e \in {x \in PidErrors : x[1] = FromInt(1000)} :
        pidUpdate(axis, e[1], e[2])
  \/ \E axis \in Axes : pidReset(axis)

FilterSpec == Init /\ [][FilterNext]_vars

\* the matching steps of trackerUpdate: several detections, two gating radii
MatchNext == TrackerCalls({R0}, MatchSizes, MatchCalls)

MatchSpec == Init /\ [][MatchNext]_vars

\* the tracker's mode under every kind of detectedCount
ModeNext == TrackerCalls({R0}, {<<640, 480>>}, ModeCalls)

ModeSpec == Init /\ [][ModeNext]_vars

\* discriminatorSelectBest on every score list up to MaxScores scores
SelectNext ==
  \E scores \in ScoreLists, minScore \in Scores :
     \E count \in 0 .. Len(scores) : discriminatorSelectBest(scores, count, minScore)

SelectSpec == Init /\ [][SelectNext]_vars

(***************************************************************************)
(* Properties.                                                             *)
(***************************************************************************)
\* trackerUpdate gets past its two early returns
Tracking ==
  tracker.mode = TRACK_MODE_TRACK /\ tracker.lastX >= 0 /\ tracker.lastY >= 0

\* C1: in Track mode with a last-known point, a trackerUpdate with
\* detectedCount = 0 while prediction is disabled returns 0, in every state.
C1_EmptyUpdateWithoutPrediction ==
  [][(op' = "trackerUpdate" /\ arg'.count = 0 /\ Tracking
      /\ tracker.enablePrediction = 0) => ret' = 0]_vars

\* an empty update after a matched one, prediction disabled, returned 0
C1_Witness ==
  /\ op = "trackerUpdate" /\ arg.count = 0 /\ ret = 0
  /\ tracker.enablePrediction = 0 /\ tracker.mode = TRACK_MODE_TRACK
  /\ tracker.lastX = D1[1] /\ tracker.lastY = D1[2]

\* C2: in Track mode with a last-known point and prediction enabled, an empty
\* trackerUpdate whose uncertainty after its predict step is < 200 returns 1
\* with confidence exactly 0.5, outputs the truncated predicted point with the
\* last-known width and height and adopts that point as the last-known
\* position; otherwise it returns 0 and leaves the last-known rect unchanged.
C2_EmptyUpdateWithPrediction ==
  [][(op' = "trackerUpdate" /\ arg'.count = 0 /\ Tracking
      /\ tracker.enablePrediction # 0) =>
       LET px == IF kalman.initialized THEN Trunc(kalman'.state[0]) ELSE 0
           py == IF kalman.initialized THEN Trunc(kalman'.state[1]) ELSE 0
       IN IF FLt(kalmanGetUncertainty(kalman'), FromInt(200))
          THEN /\ ret' = 1 /\ out'.written /\ out'.conf = Half
               /\ out'.x = px /\ out'.y = py
               /\ out'.w = tracker.lastW /\ out'.h = tracker.lastH
               /\ tracker'.lastX = px /\ tracker'.lastY = py
               /\ tracker'.lastW = tracker.lastW /\ tracker'.lastH = tracker.lastH
          ELSE /\ ret' = 0
               /\ tracker'.lastX = tracker.lastX /\ tracker'.lastY = tracker.lastY
               /\ tracker'.lastW = tracker.lastW /\ tracker'.lastH = tracker.lastH]_vars

\* an empty update passed the gate on an initialised filter and moved the
\* last-known point from the detection D1 to the predicted point
C2_Witness ==
  /\ op = "trackerUpdate" /\ arg.count = 0 /\ ret = 1 /\ out.conf = Half
  /\ tracker.enablePrediction # 0 /\ kalman.initialized
  /\ FLt(kalmanGetUncertainty(kalman), FromInt(200))
  /\ tracker.lastX = out.x /\ tracker.lastX # D1[1]
  /\ tracker.lastW = D1[3] /\ tracker.lastH = D1[4]

\* C3: with prediction enabled, after trackerStartTracking and a matched
\* update, the next trackerUpdate with an empty detection list returns 1.
C3_EmptyUpdateAfterMatchFound ==
  [][(op = "trackerUpdate" /\ arg.count > 0 /\ ret = 1 /\ Tracking
      /\ tracker.enablePrediction # 0
      /\ op' = "trackerUpdate" /\ arg'.count = 0) => ret' = 1]_vars

\* C4: in Track mode with a last-known point, every trackerUpdate with at
\* least one detection returns 1, however far the detections are.
C4_NeverRejectedOnDistance ==
  [][(op' = "trackerUpdate" /\ arg'.count >= 1 /\ Tracking) => ret' = 1]_vars

\* the only detection lay beyond the gating radius and was taken
C4_Witness ==
  /\ op = "trackerUpdate" /\ arg = Call(<<D2>>, 1) /\ ret = 1
  /\ tracker.lastX = D2[1] /\ tracker.lastY = D2[2]
  /\ FLt(SearchRadius(tracker),
         distance(D2[1], D2[2], tracker.predictedX, tracker.predictedY))

\* C5: on a matched trackerUpdate the last-known rect is the matched raw
\* detection, the filter is the predicted filter after one kalmanUpdate with
\* its (x, y), and the output is the raw detection when prediction is
\* disabled, else the truncated filtered x, y with the raw width and height.
C5_MatchedUpdate ==
  [][(op' = "trackerUpdate" /\ arg'.count >= 1 /\ Tracking) =>
       \E i \in 1 .. arg'.count :
          LET r == arg'.rects[i]
          IN /\ tracker'.lastX = r[1] /\ tracker'.lastY = r[2]
             /\ tracker'.lastW = r[3] /\ tracker'.lastH = r[4]
             /\ kalman' = KalmanUpdate(KalmanPredict(kalman), FromInt(r[1]), FromInt(r[2]))
             /\ out'.written /\ out'.w = r[3] /\ out'.h = r[4]
             /\ IF tracker.enablePrediction = 0
                THEN out'.x = r[1] /\ out'.y = r[2]
                ELSE /\ out'.x = Trunc(kalman'.state[0])
                     /\ out'.y = Trunc(kalman'.state[1])]_vars

\* a matched update with prediction enabled put out a filtered x other than
\* the raw one, with the raw width and height
C5_Witness ==
  /\ op = "trackerUpdate" /\ arg.count >= 1 /\ ret = 1
  /\ tracker.enablePrediction # 0
  /\ tracker.lastX = D1[1] /\ tracker.lastY = D1[2]
  /\ out.x # D1[1] /\ out.x = Trunc(kalman.state[0])
  /\ out.w = D1[3] /\ out.h = D1[4]

\* C6: when mode # Track or lastX < 0 or lastY < 0, trackerUpdate returns 0
\* for any detection list, writes nothing and changes neither the tracker nor
\* the filter; and only trackerStartTracking leads from such a state to one
\* where trackerUpdate is valid.
C6_UpdateOnlyWhenTracking ==
  [][/\ (op' = "trackerUpdate" /\ ~Tracking) =>
          (ret' = 0 /\ ~out'.written /\ tracker' = tracker /\ kalman' = kalman)
     /\ (~Tracking /\ Tracking') => op' = "trackerStartTracking"]_vars

\* an update with a detection was refused in Track mode for a negative lastY
C6_Witness ==
  /\ op = "trackerUpdate" /\ arg.count >= 1 /\ ret = 0
  /\ tracker.mode = TRACK_MODE_TRACK /\ tracker.lastX >= 0 /\ tracker.lastY < 0
  /\ kalman.initialized

\* C7: the mode is Off initially and never Search; trackerInit, trackerStop
\* and trackerReset set Off; trackerStartTracking sets Track; trackerUpdate
\* keeps the mode or moves Track to Lost; every other function keeps it.
C7_ModeStateMachine ==
  /\ tracker.mode = TRACK_MODE_OFF
  /\ [](tracker.mode # TRACK_MODE_SEARCH)
  /\ [][IF op' \in {"trackerInit", "trackerStop", "trackerReset"}
        THEN tracker'.mode = TRACK_MODE_OFF
        ELSE IF op' = "trackerStartTracking"
        THEN tracker'.mode = TRACK_MODE_TRACK
        ELSE IF op' = "trackerUpdate"
        THEN \/ tracker'.mode = tracker.mode
             \/ tracker.mode = TRACK_MODE_TRACK /\ tracker'.mode = TRACK_MODE_LOST
        ELSE tracker'.mode = tracker.mode]_vars

\* an update moved the tracker to Lost
C7_Witness ==
  op = "trackerUpdate" /\ ret = 0 /\ tracker.mode = TRACK_MODE_LOST

\* C8: trackerStop changes the mode, to Off, and nothing else of the tracker,
\* the filter or the discriminator; trackerReset sets the mode Off, the
\* last-known rect (-1,-1,0,0), the object count and the stored confidence 0,
\* the filter uninitialised and the discriminator history and cache empty.
C8_StopAndReset ==
  [][/\ op' = "trackerStop" =>
          /\ tracker' = [tracker EXCEPT !.mode = TRACK_MODE_OFF]
          /\ UNCHANGED <<kalman, historyBuffer, lastScores>>
     /\ op' = "trackerReset" =>
          /\ tracker'.mode = TRACK_MODE_OFF
          /\ tracker'.lastX = -1 /\ tracker'.lastY = -1
          /\ tracker'.lastW = 0 /\ tracker'.lastH = 0
          /\ tracker'.objectCount = 0 /\ tracker'.confidence = FZero
          /\ ~kalman'.initialized
          /\ historyBuffer' = <<>> /\ lastScores' = <<>>]_vars

\* trackerStop left a target, a confidence, objects, the filter and the
\* discriminator history in place
C8_Witness ==
  /\ op = "trackerStop" /\ tracker.mode = TRACK_MODE_OFF
  /\ tracker.lastX = R0[1] /\ tracker.lastW = R0[3] /\ tracker.confidence = F1
  /\ tracker.objectCount > 0 /\ kalman.initialized
  /\ historyCount > 0 /\ lastScoreCount > 0

\* C9: trackerGetConfidence returns a value v with 0 <= v <= 1 in every state
\* reached through the tracker API.
C9_ConfidenceInUnitInterval ==
  op = "trackerGetConfidence" => FLe(FZero, out.conf) /\ FLe(out.conf, F1)

\* C10: kalmanInit(x, y, Q, R) immediately followed by kalmanPredict returns
\* exactly (x, y), for finite x, y.
C10_InitThenPredict ==
  [][(op = "kalmanInit" /\ op' = "kalmanPredict") =>
       out'.written /\ out'.fx = arg[1] /\ out'.fy = arg[2]]_vars

\* the first prediction after kalmanInit(-3.5, y, 300, R) returned -3.5
C10_Witness ==
  /\ op = "kalmanPredict" /\ out.fx = FRat(-7, 2) /\ kalman.initialized
  /\ kalman.processNoise = FromInt(300) /\ kalman.P[0][0] = FromInt(410)

\* det S of the innovation covariance S = P[0:2,0:2] + R*I of filter k
InnovationDet(k) ==
  FSub(FMul(FAdd(k.P[0][0], k.measurementNoise), FAdd(k.P[1][1], k.measurementNoise)),
       FMul(k.P[0][1], k.P[1][0]))

\* measurement minus position on axis i (0: x, 1: y) of filter k
PositionError(k, z, i) == FSub(z[i + 1], k.state[i])

AutoInitialised(k, mx, my) ==
  /\ k.initialized
  /\ k.state[0] = mx /\ k.state[1] = my /\ k.state[2] = FZero /\ k.state[3] = FZero
  /\ \A i, j \in Idx4 :
        k.P[i][j] = IF i # j THEN FZero ELSE IF i < 2 THEN FromInt(100) ELSE FromInt(10)
  /\ k.processNoise = FromInt(300) /\ k.measurementNoise = F1

\* C12: on an uninitialised filter (never initialised, or after kalmanReset)
\* kalmanPredict returns (0, 0) and leaves the filter unchanged, and
\* kalmanUpdate(mx, my) leaves state (mx, my, 0, 0), covariance
\* diag(100, 100, 10, 10), Q = 300, R = 1; a kalmanPredict right after that
\* returns (mx, my).
C12_UninitialisedFilter ==
  [][/\ (~kalman.initialized /\ op' = "kalmanPredict") =>
          (out'.written /\ out'.fx = FZero /\ out'.fy = FZero /\ kalman' = kalman)
     /\ (~kalman.initialized /\ op' = "kalmanUpdate") =>
          AutoInitialised(kalman', arg'[1], arg'[2])
     /\ (op = "kalmanUpdate" /\ AutoInitialised(kalman, arg[1], arg[2])
         /\ op' = "kalmanPredict") =>
          (out'.fx = arg[1] /\ out'.fy = arg[2])]_vars

\* kalmanPredict returned x = 105 on the filter that kalmanUpdate(105, 101)
\* initialised (no kalmanInit of the run has x = 105)
C12_Witness ==
  /\ op = "kalmanPredict" /\ out.fx = FromInt(105) /\ out.fy = FromInt(101)
  /\ kalman.initialized /\ kalman.P[0][0] = FromInt(410)
  /\ kalman.processNoise = FromInt(300) /\ kalman.measurementNoise = F1

\* C13: kalmanUpdate on an initialised filter whose innovation covariance S is
\* singular (|det S| < 1e-10) leaves the state vector and the covariance
\* matrix exactly unchanged.
C13_SingularInnovation ==
  [][(op' = "kalmanUpdate" /\ kalman.initialized
      /\ FLt(FAbs(InnovationDet(kalman)), Eps10)) => kalman' = kalman]_vars

\* a second update met a singular S: the first one, with R = 0, had taken the
\* measurement (105, 101) as the position and left no position variance
C13_Witness ==
  /\ op = "kalmanUpdate" /\ steps = 2 /\ kalman.initialized
  /\ arg = <<FromInt(900), FromInt(100)>>
  /\ kalman.state[0] = FromInt(105) /\ kalman.state[1] = FromInt(101)
  /\ kalman.measurementNoise = FZero
  /\ FLt(FAbs(InnovationDet(kalman)), Eps10)

\* C14: discriminatorSelectBest(scores, count, minScore) returns the index of
\* the maximum of the first count scores, the lowest such index on ties, when
\* that maximum is strictly greater than minScore, and -1 otherwise: -1 for an
\* empty list and for scores that only equal minScore.
C14_SelectBest ==
  op = "discriminatorSelectBest" =>
    /\ ret \in -1 .. arg.count - 1
    /\ ret = -1 <=> \A i \in 1 .. arg.count : FLe(arg.scores[i], arg.minScore)
    /\ ret >= 0 =>
         /\ FLt(arg.minScore, arg.scores[ret + 1])
         /\ \A i \in 1 .. arg.count : FLe(arg.scores[i], arg.scores[ret + 1])
         /\ \A i \in 1 .. ret : FLt(arg.scores[i], arg.scores[ret + 1])

\* the maximum 0.95 stands at indices 1 and 2: index 1 is returned
C14_Witness ==
  /\ op = "discriminatorSelectBest"
  /\ arg.scores = <<FRat(9, 10), FRat(95, 100), FRat(95, 100)>> /\ arg.count = 3
  /\ arg.minScore = FRat(9, 10)
  /\ ret = 1

\* |a - b| is at most n units in the last place of 1.0
Within(a, b, n) == FLe(FAbs(FSub(a, b)), FRat(n, Pow2(MantBits)))

\* 1 - 2 * |(area - 400) / 249600 - 0.5| as one quotient of integers
Triangle(area) == FRat(249600 - Abs(2 * (area - 400) - 249600), 249600)

\* the size score the cached entry sc must have
SizeAsSpecified(sc) ==
  /\ sc.w * sc.h < 400 => sc.sizeScore = FZero
  /\ sc.w * sc.h > 250000 => sc.sizeScore = FRat(3, 10)
  /\ (sc.w * sc.h >= 400 /\ sc.w * sc.h <= 250000) =>
        Within(sc.sizeScore, Triangle(sc.w * sc.h), 8)
  /\ sc.w * sc.h = 125200 => sc.sizeScore = F1
  /\ sc.w * sc.h \in {400, 250000} => sc.sizeScore = FZero

\* C15: the size score of every evaluated rect of area w * h is 0 below 400,
\* 0.3 above 250000, and in between 1 - 2 * |(area - 400) / 249600 - 0.5| up to
\* the rounding of the float operations: exactly 1 at area 125200 and exactly
\* 0 at areas 400 and 250000.
C15_SizeScore ==
  \A k \in 1 .. Len(lastScores) : SizeAsSpecified(lastScores[k])

\* the batch of sizes has been scored: the ends, the middle, and a size on
\* the rising side (10000: 0.0769...) away from them
C15_Witness ==
  /\ op = "discriminatorEvaluateMultiple" /\ arg.rects = Sizes
  /\ lastScores[1].sizeScore = FZero /\ lastScores[1].w * lastScores[1].h = 400
  /\ lastScores[2].sizeScore = FZero /\ lastScores[2].w * lastScores[2].h = 250000
  /\ lastScores[3].sizeScore = F1 /\ lastScores[3].w * lastScores[3].h = 125200
  /\ lastScores[6].sizeScore = FRat(3, 10)
  /\ FLt(FRat(7, 100), lastScores[7].sizeScore) /\ FLt(lastScores[7].sizeScore, FRat(8, 100))

\* v is a number of [0, 1]
InUnit(v) == v # NaN /\ FLe(FZero, v) /\ FLe(v, F1)

\* C16: every total score returned by discriminatorEvaluate, alone or in a
\* batch, lies in [0, 1], and so does every sub-score and total score kept in
\* the score cache, for every rect, last position and image size.
C16_ScoresInUnitInterval ==
  /\ \A k \in 1 .. Len(lastScores) :
        /\ InUnit(lastScores[k].sizeScore) /\ InUnit(lastScores[k].positionScore)
        /\ InUnit(lastScores[k].stabilityScore) /\ InUnit(lastScores[k].motionScore)
        /\ InUnit(lastScores[k].confidence) /\ InUnit(lastScores[k].totalScore)
  /\ op = "discriminatorEvaluate" => InUnit(out.conf)
  /\ op = "discriminatorEvaluateMultiple" =>
        \A i \in 1 .. Len(out.scores) : InUnit(out.scores[i])

\* the samples in the bucket of hb keyed by hash: 0 without such a bucket
OwnSamples(hb, hash) ==
  IF FindHash(hb, 1, hash) = 0 THEN 0 ELSE hb[FindHash(hb, 1, hash)].count

\* the rect evaluated by a step that evaluates one rect and caches its score,
\* <<>> for any other step
EvaluatedAlone(o, a, before) ==
  IF o = "discriminatorEvaluate" /\ Len(before) < MAX_LAST_SCORES THEN a.rect
  ELSE IF o = "discriminatorEvaluateMultiple" /\ a.count = 1 THEN a.rects[1]
  ELSE <<>>

\* C17: a rect whose own bucket (the one keyed by its hash) held fewer than 2
\* samples before its evaluation, so fewer than 3 with the current one, gets
\* the stability score 0.3: so do the first and the second evaluation of a
\* hash since the last discriminatorInit or discriminatorReset, whatever was
\* evaluated in between.
C17_StabilityNeedsOwnSamples ==
  [][\A r \in {EvaluatedAlone(op', arg', lastScores)} :
       (r # <<>> /\ OwnSamples(historyBuffer, rectHash(r[1], r[2], r[3], r[4])) < 2) =>
          lastScores'[Len(lastScores')].stabilityScore = FRat(3, 10)]_vars

\* at most 32 buckets of at most 5 samples each
HistoryBounded(hb) ==
  /\ Len(hb) <= 32
  /\ \A b \in 1 .. Len(hb) :
        /\ hb[b].count <= 5
        /\ Len(hb[b].centerX) = hb[b].count /\ Len(hb[b].centerY) = hb[b].count

\* the rect of a step that evaluates one rect, <<>> for any other step
EvaluatedRect(o, a) ==
  IF o = "discriminatorEvaluate" THEN a.rect
  ELSE IF o = "discriminatorEvaluateMultiple" /\ a.count = 1 THEN a.rects[1]
  ELSE <<>>

\* bucket b of hb is bucket b of old with its oldest sample dropped and
\* (x, y) added last
Shifted(hb, old, b, x, y) ==
  /\ hb[b].count = 5
  /\ hb[b].centerX = Tail(old[b].centerX) \o <<x>>
  /\ hb[b].centerY = Tail(old[b].centerY) \o <<y>>

\* C18: the history never exceeds 32 buckets nor 5 samples in a bucket, and
\* the evaluation of a rect whose bucket holds 5 samples drops the oldest
\* sample, keeps the other four in their order and puts the new one last.
C18_HistoryBounded ==
  [][/\ HistoryBounded(historyBuffer')
     /\ \A r \in {EvaluatedRect(op', arg')} :
          (r # <<>> /\ OwnSamples(historyBuffer, rectHash(r[1], r[2], r[3], r[4])) = 5) =>
             Shifted(historyBuffer', historyBuffer,
                     FindHash(historyBuffer, 1, rectHash(r[1], r[2], r[3], r[4])),
                     r[1], r[2])]_vars

\* D1 came as the sixth sample of the bucket of the five detections of Ring
C18_Witness ==
  /\ op = "discriminatorEvaluate" /\ arg.rect = D1
  /\ Len(historyBuffer) = 1 /\ historyBuffer[1].count = 5
  /\ historyBuffer[1].centerX = <<104, 110, 118, 101, 105>>
  /\ historyBuffer[1].centerY = <<108, 102, 119, 115, 101>>

\* the cache ls holds the scores of the first 32 rects of batch b and nothing else
CacheOfBatch(ls, b) ==
  /\ Len(ls) = IF b.count < 32 THEN b.count ELSE 32
  /\ \A k \in 1 .. Len(ls) :
        <<ls[k].x, ls[k].y, ls[k].w, ls[k].h>> = b.rects[k]

\* every bucket of old is still in hb, under its hash, with no fewer samples
HistoryKept(hb, old) ==
  /\ Len(hb) >= Len(old)
  /\ \A b \in 1 .. Len(old) : hb[b].hash = old[b].hash /\ hb[b].count >= old[b].count

\* the samples of bucket h are one and the same point
Still(h) ==
  \A i \in 1 .. h.count : h.centerX[i] = h.centerX[1] /\ h.centerY[i] = h.centerY[1]

\* C19: discriminatorEvaluateMultiple leaves in the score cache the scores of
\* its own rects only and keeps the history of the calls before it: a rect
\* that meets two samples in its bucket gets a computed stability, 1.0 when
\* it stands still. discriminatorReset empties the history and the cache: the
\* rect evaluated next gets stability 0.3, and discriminatorGetScore called
\* next writes nothing.
C19_BatchKeepsHistoryResetClears ==
  [][/\ op' = "discriminatorEvaluateMultiple" =>
          /\ CacheOfBatch(lastScores', arg')
          /\ HistoryKept(historyBuffer', historyBuffer)
          /\ (/\ arg'.count = 1 /\ Len(historyBuffer) = 1 /\ Len(historyBuffer') = 1
              /\ historyBuffer[1].count >= 2 /\ Still(historyBuffer'[1])) =>
                lastScores'[1].stabilityScore = F1
     /\ op' = "discriminatorReset" => (historyBuffer' = <<>> /\ lastScores' = <<>>)
     /\ (op = "discriminatorReset" /\ op' = "discriminatorEvaluateMultiple") =>
          lastScores'[1].stabilityScore = FRat(3, 10)
     /\ (op = "discriminatorReset" /\ op' = "discriminatorEvaluate") =>
          (Len(lastScores') = 1 /\ lastScores'[1].stabilityScore = FRat(3, 10))
     /\ (op = "discriminatorReset" /\ op' = "discriminatorGetScore") => ~out'.written]_vars

\* the third batch in a row with D1 alone: three samples in its bucket, one
\* cached score, stability 1.0
C19_Witness ==
  /\ op = "discriminatorEvaluateMultiple" /\ arg.rects = <<D1>> /\ steps = 3
  /\ Len(historyBuffer) = 1 /\ historyBuffer[1].centerX = <<105, 105, 105>>
  /\ Len(lastScores) = 1 /\ lastScores[1].stabilityScore = F1

\* C20: guidanceUpdate while not started (guidance.tracking false: before the
\* first guidanceStart, or after guidanceStop and before the next
\* guidanceStart) changes nothing of the guidance state nor of the two PIDs;
\* tracking is set by guidanceStart, cleared by guidanceStop and left alone by
\* every other call.
C20_UpdateOnlyWhileStarted ==
  [][/\ (op' = "guidanceUpdate" /\ ~guidance.tracking) =>
          (guidance' = guidance /\ pid' = pid)
     /\ guidance'.tracking =
          IF op' = "guidanceStart" THEN TRUE
          ELSE IF op' = "guidanceStop" THEN FALSE
          ELSE guidance.tracking]_vars

\* an update after guidanceStop: the raw error is still the one of the
\* update made while started, not the one passed
C20_Witness ==
  /\ op = "guidanceUpdate" /\ steps = 2 /\ ~guidance.tracking
  /\ arg[1] = FromInt(-400) /\ guidance.rawErrorX = FromInt(100)
  /\ guidance.filteredErrorX # FZero /\ pid[0].initialized /\ pid[0].prevOutput # FZero

\* v lies within the current command range of g
InRange(g, v) == FLe(g.cmdMin, v) /\ FLe(v, g.cmdMax)

Clamped(g, v) == FMax(g.cmdMin, FMin(g.cmdMax, v))

PidsReset(p) ==
  \A axis \in {0, 1} :
     p[axis].integral = FZero /\ p[axis].prevError = FZero /\ p[axis].prevOutput = FZero

FilteredErrorsZero(g) == g.filteredErrorX = FZero /\ g.filteredErrorY = FZero

ServoAnglesZero(g) == \A i \in 0 .. 3 : g.servoAngles[i] = FZero

\* C23: right after guidanceStart, from any state, both PIDs are reset, the
\* filtered errors are 0 and the 4 servo angles are 0.
C23_StartResets ==
  op = "guidanceStart" =>
     PidsReset(pid) /\ FilteredErrorsZero(guidance) /\ ServoAnglesZero(guidance)

\* C24: right after guidanceStop, from any state, both PIDs are reset, the
\* filtered errors are 0 and the 4 servo angles are 0.
C24_StopResets ==
  op = "guidanceStop" =>
     PidsReset(pid) /\ FilteredErrorsZero(guidance) /\ ServoAnglesZero(guidance)

\* |integral| <= integralMax = outputMax * 0.5 on controller p
IntegralBounded(p) ==
  /\ p.integralMax = FMul(p.outputMax, Half)
  /\ FLe(FAbs(p.integral), p.integralMax)

\* C25 as stated: after any sequence of pidInit, pidUpdate and pidReset, for
\* any output limits, the integral of each controller satisfies
\* |integral| <= integralMax = outputMax * 0.5.
C25_IntegralBoundedAlways ==
  \A axis \in {0, 1} : IntegralBounded(pid[axis])

\* C25: after any sequence of pidInit, pidUpdate and pidReset, the integral of
\* each controller whose outputMax is not negative satisfies
\* |integral| <= integralMax = outputMax * 0.5.
C25_IntegralBounded ==
  \A axis \in {0, 1} :
     FLe(FZero, pid[axis].outputMax) => IntegralBounded(pid[axis])

\* the integral of the yaw PID wound up to its limit 5 and back down to -5
C25_Witness ==
  /\ op = "pidUpdate" /\ arg[1] = 0 /\ arg[2] = FromInt(-1000) /\ steps = 2
  /\ pid[0].initialized /\ pid[0].outputMax = FromInt(10)
  /\ pid[0].integral = FromInt(-5) /\ pid[0].prevOutput # FZero

\* the accumulators and the fused position of the fusion state
FusionAccumulators(f) ==
  <<f.velN, f.velE, f.velD, f.offsetN, f.offsetE, f.offsetD,
    f.fusedLat, f.fusedLon, f.fusedAlt>>

\* C26: without a GPS fix fusionIntegrateImu changes neither the velocities,
\* nor the N/E/D offsets, nor the fused position, and the fix flag stays false
\* (fusionHasFix returns false) until fusionUpdateGps is called; fusionInit
\* clears the fix flag, also after a fix.
C26_NoFixNoIntegration ==
  [][/\ (~fusion.hasGpsFix /\ op' = "fusionIntegrateImu") =>
            /\ FusionAccumulators(fusion') = FusionAccumulators(fusion)
            /\ ~fusion'.hasGpsFix
     /\ (~fusion.hasGpsFix /\ op' # "fusionUpdateGps") => ~fusion'.hasGpsFix
     /\ (~fusion.hasGpsFix /\ op' = "fusionHasFix") => ret' = 0
     /\ op' = "fusionInit" => ~fusion'.hasGpsFix]_vars

\* a second fusionIntegrateImu, made after a fix, an integration and a
\* fusionInit: the fused position of the first integration is still there
C26_Witness ==
  /\ op = "fusionIntegrateImu" /\ steps = 2 /\ arg[1] # FZero
  /\ ~fusion.hasGpsFix /\ fusion.gpsTimestamp > 0
  /\ fusion.velN = FZero /\ fusion.offsetN = FZero
  /\ fusion.fusedLat # FZero /\ fusion.fusedLat # fusion.gpsLat

FramePosition(position) ==
  IF position < 0 THEN 0 ELSE IF position > 16383 THEN 16383 ELSE position

\* C28: a servo position frame is the 5 bytes sync = 0x88 | ((servoId>>7)&3),
\* id = servoId & 0x7F, the high and the low 7 bits of the position limited
\* to [0,16383], and checksum = (sync^id^hPos^lPos) & 0x7F; only the first
\* byte has bit 7 set; servoFormatPositionCommand and Servo_BuildPacket
\* produce the same bytes for every servoId in 0..255 and every position.
C28_ServoFrame ==
  op \in {"servoFormatPositionCommand", "Servo_BuildPacket"} =>
    /\ Len(out.vec) = 5
    /\ out.vec[1] = 136 + ((arg[1] \div 128) % 4)
    /\ out.vec[2] = arg[1] % 128
    /\ out.vec[3] = FramePosition(arg[2]) \div 128
    /\ out.vec[4] = FramePosition(arg[2]) % 128
    /\ out.vec[5] = BitXor(BitXor(out.vec[1], out.vec[2]), BitXor(out.vec[3], out.vec[4])) % 128
    /\ out.vec[1] >= 128 /\ out.vec[1] < 256
    /\ \A i \in 2 .. 5 : out.vec[i] \in 0 .. 127
    /\ out.vec = ServoFormatPositionCommand(arg[1], arg[2])
    /\ out.vec = ServoBuildPacket(arg[1], arg[2])

\* the firmware's frame for servo 200 and a position above the range
C28_Witness ==
  /\ op = "Servo_BuildPacket" /\ arg[1] = 200 /\ arg[2] > 16383
  /\ out.vec = <<137, 72, 127, 127, 65>>

\* the unsigned 16-bit number stored low byte first at bytes i, i + 1
Le16At(v, i) == v[i] + 256 * v[i + 1]

\* the signed 32-bit number stored low byte first at bytes i .. i + 3
Le32At(v, i) ==
  v[i] + 256 * v[i + 1] + 65536 * v[i + 2]
    + 16777216 * (IF v[i + 3] >= 128 THEN v[i + 3] - 256 ELSE v[i + 3])

\* bit k of the XOR of bytes 1 .. n of v: the parity of the bytes with bit k set
XorBit(v, n, k) == Cardinality({i \in 1 .. n : (v[i] \div Pow2(k)) % 2 = 1}) % 2

\* the 16-bit fields of the telemetry record and the byte each starts at
Fields16(t) ==
  <<<<8, t.roll>>, <<10, t.pitch>>, <<12, t.yaw>>, <<14, t.accX>>, <<16, t.accY>>,
    <<18, t.accZ>>, <<20, t.pressure>>, <<22, t.baroAltitude>>, <<32, t.gpsAltitude>>,
    <<34, t.speed>>, <<36, t.heading>>, <<40, t.hdop>>, <<42, t.s1Cmd>>, <<44, t.s2Cmd>>,
    <<46, t.s3Cmd>>, <<48, t.s4Cmd>>, <<50, t.s1Fb>>, <<52, t.s2Fb>>, <<54, t.s3Fb>>,
    <<56, t.s4Fb>>, <<59, t.targetX>>, <<61, t.targetY>>, <<63, t.targetW>>,
    <<65, t.targetH>>, <<69, t.batteryVoltage>>, <<71, t.temperature>>>>

\* C29: telemetryBuildFrame with maxLen >= 73 returns 73 and writes 73 bytes:
\* 0xAA, 0x55, the length byte 70, every field of the record low byte first
\* at its place, and last the XOR of the 72 bytes before it; with maxLen < 73
\* it returns -1 and writes nothing.
C29_TelemetryFrame ==
  op = "telemetryBuildFrame" =>
    IF arg[1] >= 73
      THEN /\ ret = 73 /\ out.written /\ Len(out.vec) = 73
           /\ \A i \in 1 .. 73 : out.vec[i] \in 0 .. 255
           /\ out.vec[1] = 170 /\ out.vec[2] = 85 /\ out.vec[3] = 70
           /\ Le32At(out.vec, 4) = telem.timestamp
           /\ Le32At(out.vec, 24) = telem.latitude
           /\ Le32At(out.vec, 28) = telem.longitude
           /\ \A f \in 1 .. Len(Fields16(telem)) :
                 Le16At(out.vec, Fields16(telem)[f][1]) = Fields16(telem)[f][2] % 65536
           /\ out.vec[38] = telem.satellites /\ out.vec[39] = telem.gpsFix
           /\ out.vec[58] = telem.servoOnline
           /\ out.vec[67] = telem.batteryPercent /\ out.vec[68] = telem.isCharging
           /\ \A k \in 0 .. 7 : (out.vec[73] \div Pow2(k)) % 2 = XorBit(out.vec, 72, k)
      ELSE ret = -1 /\ ~out.written /\ out.vec = <<>>

\* a frame built from a record with negative 16- and 32-bit fields and a
\* tracking box that wrapped into 16 bits
C29_Witness ==
  /\ op = "telemetryBuildFrame" /\ arg[1] = 74 /\ ret = 73
  /\ telem.roll = -120 /\ telem.latitude < 0 /\ telem.timestamp > 65536
  /\ telem.targetX = 25536 /\ telem.targetW = 7
  /\ out.vec[8] = 136 /\ out.vec[9] = 255
  /\ out.vec[73] # 0

\* the operations on the PID controllers
PidOps == {"pidInit", "pidUpdate", "pidReset"}

\* C30: a filter call with a slot id outside its range (IIR 0..15; vector,
\* complementary, moving average 0..7) changes no filter slot, and its update
\* returns the input (compFilterUpdate: lowFreq); a PID call with an axis other
\* than 0 acts on the pitch PID and leaves the yaw PID as it is.
C30_OutOfRangeIds ==
  [][/\ (op' \in {"iirInit", "iirUpdate", "iirGet", "iirReset"} /\ arg'[1] \notin 0 .. 15) =>
          /\ filterVars' = filterVars
          /\ op' = "iirUpdate" => ret' = arg'[2]
     /\ (op' \in {"vecFilterInit", "vecFilterUpdate", "compFilterInit", "compFilterUpdate",
                  "maInit", "maUpdate"} /\ arg'[1] \notin 0 .. 7) =>
          /\ filterVars' = filterVars
          /\ op' = "vecFilterUpdate" => out'.vec = arg'[2]
          /\ op' = "compFilterUpdate" => ret' = arg'[3]
          /\ op' = "maUpdate" => ret' = arg'[2]
     /\ (op' \in PidOps /\ arg'[1] # 0) =>
          /\ pid'[0] = pid[0]
          /\ op' = "pidInit" =>
               pid'[1] = PidInit(pid[1], arg'[2][1], arg'[2][2], arg'[2][3], arg'[2][4],
                                 arg'[2][5], arg'[2][6])
          /\ op' = "pidUpdate" =>
               /\ pid'[1] = PidUpdate(pid[1], arg'[2], arg'[3]).pid
               /\ ret' = PidUpdate(pid[1], arg'[2], arg'[3]).output
          /\ op' = "pidReset" => pid'[1] = PidReset(pid[1])]_vars

\* a complementary-filter update on slot 8 that returns lowFreq, with slot 7
\* in use and the pitch PID initialised through an axis that is neither 0 nor 1
C30_Witness ==
  /\ op = "compFilterUpdate" /\ arg[1] = 8 /\ ret = arg[3] /\ arg[2] # arg[3]
  /\ compFilters[7].initialized /\ ~compFilters[0].initialized
  /\ pid[1].initialized /\ ~pid[0].initialized


\* the distance of detection i of a trackerUpdate call a to the predicted
\* point stored in tracker t
DetectionDistance(a, i, t) ==
  distance(a.rects[i][1], a.rects[i][2], t.predictedX, t.predictedY)

\* the detections of call a with the least distance to the predicted point of t
Nearest(a, t) ==
  {i \in 1 .. a.count :
     \A j \in 1 .. a.count : FLe(DetectionDistance(a, i, t), DetectionDistance(a, j, t))}

\* the lowest index among them
FirstNearest(a, t) == CHOOSE i \in Nearest(a, t) : \A j \in Nearest(a, t) : i <= j

\* tracker t holds rect r as its last-known rect
LastIs(t, r) == t.lastX = r[1] /\ t.lastY = r[2] /\ t.lastW = r[3] /\ t.lastH = r[4]

\* C31: the detection matched by a trackerUpdate with at least one detection
\* is, among all the detections of the call, one with the least distance to
\* the truncated predicted point, and the one of lowest index among those;
\* the image size, hence the gating radius, has no part in the choice.
C31_GloballyNearestLowestIndex ==
  [][(op' = "trackerUpdate" /\ arg'.count >= 1 /\ Tracking) =>
       (ret' = 1 /\ LastIs(tracker', arg'.rects[FirstNearest(arg', tracker')]))]_vars

\* two detections beyond the gating radius at the same distance: the first
\* one was matched
C31_Witness ==
  /\ op = "trackerUpdate" /\ arg = Call(<<T2, D2>>, 2) /\ ret = 1
  /\ LastIs(tracker, T2)
  /\ DetectionDistance(arg, 1, tracker) = DetectionDistance(arg, 2, tracker)
  /\ FLt(SearchRadius(tracker), DetectionDistance(arg, 1, tracker))


\* v limited to lo .. hi
Limited(v, lo, hi) == IF FLt(v, lo) THEN lo ELSE IF FLt(hi, v) THEN hi ELSE v

\* the distance of the matched detection of call a, and the gating radius
MatchedDistance(a, t) == DetectionDistance(a, FirstNearest(a, t), t)

\* C32: on every matched trackerUpdate the reported confidence is
\* 1 - bestDistance / gatingRadius limited to 0.3 .. 1.0, where gatingRadius
\* = max(imageWidth / 2, imageHeight / 2, 500); it is 0.3 when the matched
\* detection is at the gating radius or beyond, and 1.0 only when the matched
\* detection lies on the truncated predicted point.
C32_MatchConfidence ==
  [][(op' = "trackerUpdate" /\ arg'.count >= 1 /\ Tracking) =>
       \E i \in {FirstNearest(arg', tracker')} :
       \E d \in {DetectionDistance(arg', i, tracker')} :
       \E radius \in {FromInt(IF tracker.imageWidth \div 2 > 500
                                  \/ tracker.imageHeight \div 2 > 500
                               THEN IMax(tracker.imageWidth \div 2,
                                         tracker.imageHeight \div 2)
                               ELSE 500)} :
          /\ ret' = 1 /\ out'.written
          /\ out'.conf = Limited(FSub(F1, FDiv(d, radius)), FRat(3, 10), F1)
          /\ FLe(FRat(3, 10), out'.conf) /\ FLe(out'.conf, F1)
          /\ FLe(radius, d) => out'.conf = FRat(3, 10)
          /\ out'.conf = F1 =>
               /\ arg'.rects[i][1] = tracker'.predictedX
               /\ arg'.rects[i][2] = tracker'.predictedY]_vars

\* a detection on the predicted point, behind a nearby one, was matched with
\* confidence 1.0
C32_Witness ==
  /\ op = "trackerUpdate" /\ arg = Call(<<T1, P0>>, 2) /\ ret = 1
  /\ LastIs(tracker, P0) /\ out.conf = F1
  /\ tracker.predictedX = P0[1] /\ tracker.predictedY = P0[2]

\* a match of the fallback search, beyond the gating radius, with confidence 0.3
C32_FallbackReached ==
  /\ op = "trackerUpdate" /\ arg = Call(<<D2, T2>>, 2) /\ ret = 1
  /\ FLt(SearchRadius(tracker), MatchedDistance(arg, tracker))
  /\ out.conf = FRat(3, 10)


\* An empty trackerUpdate that returns 0 from a state where `valid` holds
\* changes of the tracker only the stored predicted point, advances the filter
\* by one kalmanPredict, and the trackerUpdate with detections that follows it
\* returns 1.
EmptyNotFound(valid) ==
  /\ (op' = "trackerUpdate" /\ arg'.count = 0 /\ ret' = 0 /\ valid) =>
        /\ tracker'.mode = TRACK_MODE_TRACK
        /\ tracker' = [tracker EXCEPT !.predictedX = tracker'.predictedX,
                                      !.predictedY = tracker'.predictedY]
        /\ kalman' = KalmanPredict(kalman)
  /\ (op = "trackerUpdate" /\ arg.count = 0 /\ ret = 0 /\ valid
      /\ op' = "trackerUpdate" /\ arg'.count >= 1) => ret' = 1

\* C33 as stated: in Track mode, an empty trackerUpdate that returns 0 leaves
\* the mode, the last-known rect, the stored confidence and the prediction
\* flag unchanged, advances the filter by one predict step, and the following
\* trackerUpdate with at least one detection returns 1.
C33_EmptyNotFoundInTrackMode ==
  [][EmptyNotFound(tracker.mode = TRACK_MODE_TRACK)]_vars

\* C33: in Track mode with a last-known point (lastX >= 0 and lastY >= 0), an
\* empty trackerUpdate that returns 0 leaves the mode, the last-known rect,
\* the stored confidence and the prediction flag unchanged, advances the
\* filter by one predict step, and the following trackerUpdate with at least
\* one detection returns 1.
C33_EmptyNotFoundKeepsTracking == [][EmptyNotFound(Tracking)]_vars

\* an empty update with prediction disabled returned 0 after one predict step
\* of the filter that trackerStartTracking initialised at R0
C33_Witness ==
  /\ op = "trackerUpdate" /\ arg.count = 0 /\ ret = 0 /\ steps = 1
  /\ Tracking /\ LastIs(tracker, R0) /\ tracker.enablePrediction = 0
  /\ kalman.initialized
  /\ kalman = KalmanPredict(KalmanInit(FromInt(R0[1]), FromInt(R0[2]),
                                     FromInt(300), F1))


\* C34: a trackerUpdate with detectedCount >= 0 never changes the mode, and
\* the mode leaves {Off, Track} only by a trackerUpdate with a negative
\* detectedCount, which enters Lost; so as long as every trackerUpdate has
\* detectedCount >= 0 the mode is Off or Track.
C34_LostOnlyByNegativeCount ==
  [][/\ (op' = "trackerUpdate" /\ arg'.count >= 0) => tracker'.mode = tracker.mode
     /\ (tracker.mode \in {TRACK_MODE_OFF, TRACK_MODE_TRACK}
         /\ tracker'.mode \notin {TRACK_MODE_OFF, TRACK_MODE_TRACK}) =>
           /\ op' = "trackerUpdate" /\ arg'.count < 0
           /\ tracker'.mode = TRACK_MODE_LOST]_vars

\* a trackerUpdate with detectedCount = -1 entered Lost
C34_Witness ==
  /\ op = "trackerUpdate" /\ arg.count < 0 /\ ret = 0
  /\ tracker.mode = TRACK_MODE_LOST /\ tracker.lastX >= 0 /\ tracker.lastY >= 0


\* the buckets of hb that are new or hold other samples than in old
TouchedBuckets(hb, old) ==
  {b \in 1 .. Len(hb) : b > Len(old) \/ hb[b] # old[b]}

\* C35: the sample of an evaluated rect goes to a bucket whose hash is the
\* rect's hash (and to no other bucket), so every bucket holds samples of its
\* own hash only, also once 32 hashes have buckets.
C35_BucketsIsolatedByHash ==
  [][\A r \in {EvaluatedRect(op', arg')} :
       r # <<>> =>
         \A b \in TouchedBuckets(historyBuffer', historyBuffer) :
            historyBuffer'[b].hash = rectHash(r[1], r[2], r[3], r[4])]_vars


\* what fusionGetPosition returns
FusedPosition(f) == <<f.fusedLat, f.fusedLon, f.fusedAlt>>

\* C36: fusionInit and fusionUpdateGps leave the position returned by
\* fusionGetPosition unchanged; it changes only in a fusionIntegrateImu made
\* with a fix, which sets it to the fix plus the offsets; so it is (0, 0, 0)
\* until the first such call and stale between a new fix and the next one.
C36_FusedOnlyByIntegrate ==
  [][/\ op' \in {"fusionInit", "fusionUpdateGps"} =>
            FusedPosition(fusion') = FusedPosition(fusion)
     /\ FusedPosition(fusion') # FusedPosition(fusion) =>
            (op' = "fusionIntegrateImu" /\ fusion.hasGpsFix)
     /\ (op' = "fusionIntegrateImu" /\ fusion.hasGpsFix) =>
            /\ fusion'.fusedLat =
                 FAdd(fusion.gpsLat, FDiv(fusion'.offsetN, FromInt(111000)))
            /\ fusion'.fusedAlt = FSub(fusion.gpsAlt, fusion'.offsetD)
            /\ fusion' = FusePosition(fusion')
     /\ op' = "fusionGetPosition" => out'.vec = FusedPosition(fusion)
     /\ (op' = "fusionGetPosition" /\ steps = 0) => out'.vec = <<FZero, FZero, FZero>>]_vars

\* a second fix has arrived after an integration: the fused position is still
\* the one computed from the first fix, not the new fix plus the offsets
C36_Witness ==
  /\ op = "fusionUpdateGps" /\ fusion.gpsTimestamp = 2 /\ steps > 0
  /\ fusion.hasGpsFix /\ fusion.offsetN # FZero
  /\ fusion.fusedLat # FZero
  /\ fusion.fusedLat # FAdd(fusion.gpsLat, FDiv(fusion.offsetN, FromInt(111000)))
  /\ fusion.fusedAlt # FSub(fusion.gpsAlt, fusion.offsetD)


\* C40: every feedback that servoParseFeedback accepts (return 1, valid = 1)
\* has a position within 0 .. 16383 and an angle within -25 .. +25 degrees.
C40_AcceptedFeedbackInRange ==
  (op = "servoParseFeedback" /\ ret = 1) =>
     /\ out.vec[1].valid = 1
     /\ out.vec[1].position >= 0 /\ out.vec[1].position <= 16383
     /\ FLe(FromInt(-25), out.vec[1].angleDegrees)
     /\ FLe(out.vec[1].angleDegrees, FromInt(25))

\* the part of C40 on the raw position
C40_AcceptedPositionInRange ==
  (op = "servoParseFeedback" /\ ret = 1) =>
     /\ out.vec[1].valid = 1
     /\ out.vec[1].position >= 0 /\ out.vec[1].position <= 16383


\* the commands of log that the handler put in the queue, in order
RECURSIVE Enqueued(_)
Enqueued(log) ==
  IF log = <<>> THEN <<>>
  ELSE IF log[1].enqueued THEN <<log[1]>> \o Enqueued(Tail(log))
  ELSE Enqueued(Tail(log))

\* number of commands in the queue
Pending(head, tail) == (head + CMD_QUEUE_SIZE - tail) % CMD_QUEUE_SIZE

\* the packets sent are those of the first commands enqueued, in their order
SentInOrder(sent, enq) ==
  /\ Len(sent) <= Len(enq)
  /\ \A i \in 1 .. Len(sent) : sent[i] = ServoBuildPacket(enq[i].servoId, enq[i].position)

\* C37: under every interleaving of the CAN-RX handler with main's loop, the
\* packets transmitted are those of the commands enqueued, in the order of
\* their arrival, each at most once and with its servo id and position; the
\* handler drops a command exactly when 7 commands are in the queue; and no
\* step of the handler changes a slot that holds a pending command.
C37_QueueSafe ==
  [][/\ SentInOrder(uartTx', Enqueued(canRxLog'))
     /\ canRxLog' # canRxLog =>
          /\ canRxLog'[Len(canRxLog')].enqueued
               = (Pending(cmdQueueHead, cmdQueueTail) # CMD_QUEUE_SIZE - 1)
          /\ Pending(cmdQueueHead, cmdQueueTail) <= CMD_QUEUE_SIZE - 1
     /\ \A k \in 0 .. Pending(cmdQueueHead, cmdQueueTail) - 1 :
          cmdQueue'[(cmdQueueTail + k) % CMD_QUEUE_SIZE]
            = cmdQueue[(cmdQueueTail + k) % CMD_QUEUE_SIZE]]_vars

\* a command was dropped on a full queue, a later one was enqueued once main
\* had made room, and every enqueued command has been transmitted
C37_Witness ==
  /\ \E i \in 1 .. Len(canRxLog) :
        /\ ~canRxLog[i].enqueued
        /\ \E j \in i + 1 .. Len(canRxLog) : canRxLog[j].enqueued
  /\ Len(uartTx) = Len(Enqueued(canRxLog))
  /\ Len(uartTx) >= CMD_QUEUE_SIZE


\* clamp(4 * canValue + 8191, 0, 16383) in unbounded integers
UnboundedPosition(canValue) ==
  IF canValue <= -2048 THEN 0
  ELSE IF canValue >= 2048 THEN 16383
  ELSE 4 * canValue + 8191

\* the position a servo packet carries in its two 7-bit bytes
PacketCarries(packet) == 128 * packet[3] + packet[4]

\* C39: for every int32 SDO value the packet put on the serial line carries
\* clamp(4 * canValue + 8191, 0, 16383) computed in unbounded integers, and of
\* two conversions the one of the larger value carries no smaller position.
C39_PositionClampedUnbounded ==
  [][(op' = "Bridge_ConvertSDOtoSerial" /\ SdoSignature(arg'[1])) =>
       /\ out'.written
       /\ PacketCarries(out'.vec[1]) = UnboundedPosition(CanValue(arg'[1]))
       /\ (op = "Bridge_ConvertSDOtoSerial" /\ out.written
           /\ CanValue(arg[1]) <= CanValue(arg'[1])) =>
             PacketCarries(out.vec[1]) <= PacketCarries(out'.vec[1])]_vars

\* the part of C39 on the SDO values for which neither canValue * 4 nor the
\* sum with 8191 leaves int32_t
C39_PositionClampedInRange ==
  [][(op' = "Bridge_ConvertSDOtoSerial" /\ SdoSignature(arg'[1])
      /\ SdoInRange(CanValue(arg'[1]))) =>
       /\ out'.written
       /\ PacketCarries(out'.vec[1]) = UnboundedPosition(CanValue(arg'[1]))]_vars

\* the packets main's loop sends carry the positions of C39 as well
C39_QueuePositions ==
  \A i \in 1 .. Len(uartTx) :
     PacketCarries(uartTx[i]) = UnboundedPosition(Enqueued(canRxLog)[i].canValue)


\* the messages of sent on the ids 0x581 .. 0x584, in order
RECURSIVE Forwarded(_)
Forwarded(sent) ==
  IF sent = <<>> THEN <<>>
  ELSE IF sent[1].StdId >= 1409 /\ sent[1].StdId <= 1412
       THEN <<sent[1]>> \o Forwarded(Tail(sent))
       ELSE Forwarded(Tail(sent))

\* the position in bytes 2 and 3 of frame f
FramePositionOf(f) == 128 * (f[3] % 128) + (f[4] % 128)

\* the message that forwards frame f: its id from byte 1, its position from
\* bytes 2 and 3
ForwardOf(f) ==
  [StdId |-> 1408 + (IF f[2] % 16 \in 1 .. 4 THEN f[2] % 16 ELSE 1), DLC |-> 8,
   data |-> <<FramePositionOf(f) % 256, FramePositionOf(f) \div 256, 0, 0, 0, 0, 0, 0>>]

\* main's loop is not in Bridge_ProcessFeedback and no frame waits for it
FeedbackIdle == feedbackReady = 0 /\ mainLoop.pc \in {"queue", "feedback"}

\* C38: every frame the UART-RX callback has extracted is forwarded by main's
\* loop exactly once, as a message on 0x581 .. 0x584 whose position comes from
\* the bytes of that frame: the messages forwarded are those of the frames
\* extracted, in order, and once no frame waits none is missing.
C38_EveryFrameForwardedOnce ==
  /\ Len(Forwarded(canTx)) <= Len(frameLog)
  /\ \A i \in 1 .. Len(Forwarded(canTx)) : Forwarded(canTx)[i] = ForwardOf(frameLog[i])
  /\ FeedbackIdle => Len(Forwarded(canTx)) = Len(frameLog)

\* a forwarded message whose position belongs to no extracted frame
C38_TornFrameForwarded ==
  \E i \in 1 .. Len(Forwarded(canTx)) :
     \A j \in 1 .. Len(frameLog) : Forwarded(canTx)[i].data # ForwardOf(frameLog[j]).data

=============================================================================
